---- MODULE Spec2Model ----
(***************************************************************************)
(* VTK / VTU mesh decoding and cell triangulation.                         *)
(*                                                                         *)
(*   triangulateCell          src/utils/vtkUtils.ts                        *)
(*   VTKUnstructuredLoader    src/unnamed/part_001 (lines 222-564, the     *)
(*                            loader with poly-data support)               *)
(*   VTULoader                src/unnamed/part_000 (lines 1-395, the       *)
(*                            loader with appended data)                   *)
(*                                                                         *)
(* JavaScript arrays are 0-based, TLA+ sequences 1-based: a[k] of the      *)
(* source is a[k + 1] here (operator At).                                  *)
(***************************************************************************)
EXTENDS Integers, Sequences, FiniteSets, TLC

VARIABLES
    pc,              \* position of the running call
    \* ---- a call of triangulateCell (vtkUtils.ts:15)
    type,            \* parameter type
    cellIndices,     \* parameter cellIndices
    indices,         \* parameter indices / the decoders' index buffer
    trianglesAdded,  \* the returned count
    before,          \* the arguments as they were when the call was made
    \* ---- VTKUnstructuredLoader.parse (part_001:264)
    lines,           \* the input text, split into lines
    li,              \* the line loop's i
    section,
    subSection,
    numPoints,
    numCells,
    pointCount,
    points,
    cellDataRaw,
    cellTypes,
    currentScalar,
    index,           \* the type-inference loop's index
    cellDataIndex,
    \* ---- VTULoader.parse (part_000:44)
    doc,             \* the parsed document and the file's bytes
    headerSize,
    appendedDataMap,
    numberOfPoints,
    numberOfCells,
    pointsArray,
    connectivity,
    offsets,
    types,
    currentOffset,
    da,              \* position of the forEach over a group's DataArray elements
    \* ---- both decoders
    error,           \* the exception that ended the call, "" when none
    ci,              \* the cell walk's i
    pointDataFields,
    cellDataFields,
    cellIdMap,
    mesh             \* the returned geometry with its userData

triVars == <<type, cellIndices, indices, trianglesAdded, before>>

\* the accumulators of the legacy line loop
legAccum == <<numPoints, numCells, pointCount, points, cellDataRaw, cellTypes>>

legVars == <<lines, li, section, subSection, legAccum, currentScalar, index,
             cellDataIndex>>

xmlArrays == <<pointsArray, connectivity, offsets, types>>

xmlVars == <<doc, headerSize, appendedDataMap, numberOfPoints, numberOfCells, xmlArrays,
             currentOffset, da>>

outVars == <<ci, pointDataFields, cellDataFields, cellIdMap, mesh, error>>

vars == <<pc, triVars, legVars, xmlVars, outVars>>

----------------------------------------------------------------------------
(* Bounds of the model.                                                    *)

\* longest cell index list handed to triangulateCell on its own
MaxArity == 9
\* largest cell type code tried on triangulateCell on its own
MaxType == 15
\* largest step between consecutive entries of a generated cell index list
MaxStride == 2
\* most arity-prefixed groups (and most type codes) in a generated legacy file
MaxCells == 2
\* largest scalar value in a generated file
MaxVal == 2
\* most type codes the type-inference loop may push (it need not end)
MaxInferred == 4
\* largest declared point count in the generated POINTS sections
MaxPoints == 2
\* most value lines in a generated SCALARS block
MaxFieldLines == 2
\* most DataArray elements in a generated PointData group
MaxFields == 2
\* most values in a generated inline binary Float32 array
MaxFloats == 2

----------------------------------------------------------------------------
(* Sequence helpers.                                                       *)

\* a[k] of a JavaScript array (0-based), for a position that exists
At(a, k) == a[k + 1]

RECURSIVE Flatten(_)
Flatten(ss) == IF ss = <<>> THEN <<>> ELSE Head(ss) \o Flatten(Tail(ss))

\* n copies of x
Copies(n, x) == [j \in 1..n |-> x]

IsPrefix(p, s) == Len(p) <= Len(s) /\ SubSeq(s, 1, Len(p)) = p

----------------------------------------------------------------------------
(* JavaScript values that are not integers.  Each is a number outside the  *)
(* range of the numbers the generated inputs hold; the comparisons below   *)
(* give them their JavaScript meaning.                                     *)

\* NaN: parseInt / parseFloat of a missing or non-numeric token
NaN == -9999
\* undefined: a read outside an array
Undefined == -9998
\* an empty slot of new Array(n)
Hole == -9997
\* Infinity and -Infinity, the start values of the min/max scan (the ranks of
\* the two infinities among the single-precision values)
PosInf == 2139095040
NegInf == -2139095040

IsNum(x) == x \notin {NaN, Undefined, Hole}

\* a < b, a >= b, a * b of JavaScript: a comparison with NaN or undefined is false
JsLt(a, b) == IsNum(a) /\ IsNum(b) /\ a < b
JsGe(a, b) == IsNum(a) /\ IsNum(b) /\ a >= b
JsMul(a, b) == IF IsNum(a) /\ IsNum(b) THEN a * b ELSE NaN
JsAdd(a, b) == IF IsNum(a) /\ IsNum(b) THEN a + b ELSE NaN

\* Math.min: NaN when an argument is NaN
RECURSIVE MathMin(_)
MathMin(xs) ==
    IF Len(xs) = 1 THEN Head(xs)
    ELSE LET m == MathMin(Tail(xs))
         IN IF ~IsNum(Head(xs)) \/ ~IsNum(m) THEN NaN
            ELSE IF Head(xs) < m THEN Head(xs) ELSE m

\* a[k] of JavaScript for any k: undefined outside the array
Read(a, k) == IF IsNum(k) /\ k >= 0 /\ k < Len(a) THEN a[k + 1] ELSE Undefined

----------------------------------------------------------------------------
(* triangulateCell, vtkUtils.ts:15-90.                                     *)

\* indices.push(a, b, c)
Push3(ind, a, b, c) == ind \o <<a, b, c>>

\* vtkUtils.ts:26-28: for (k = 1; k < cellIndices.length - 1; k++) push(c[0], c[k], c[k+1])
RECURSIVE PolygonFan(_, _, _)
PolygonFan(c, k, ind) ==
    IF k < Len(c) - 1
    THEN PolygonFan(c, k + 1, Push3(ind, At(c, 0), At(c, k), At(c, k + 1)))
    ELSE ind

\* hexFaces with the first face listed 0,1,4,5: its split then crosses the face
hexFacesCrossed == << <<0, 1, 4, 5>>, <<1, 2, 6, 5>>, <<2, 3, 7, 6>>, <<3, 0, 4, 7>>,
                      <<0, 3, 2, 1>>, <<4, 5, 6, 7>> >>

\* vtkUtils.ts:47-50
hexFaces == << <<0, 1, 5, 4>>, <<1, 2, 6, 5>>, <<2, 3, 7, 6>>, <<3, 0, 4, 7>>,
               <<0, 3, 2, 1>>, <<4, 5, 6, 7>> >>

\* vtkUtils.ts:64
wedgeQuads == << <<0, 1, 4, 3>>, <<1, 2, 5, 4>>, <<2, 0, 3, 5>> >>

\* vtkUtils.ts:51-55 and 65-69: for (const face of faces) { idx = face.map(..); two pushes }
RECURSIVE QuadFaces(_, _, _)
QuadFaces(faces, c, ind) ==
    IF faces = <<>> THEN ind
    ELSE LET face == Head(faces)
             idx  == [j \in 1..Len(face) |-> At(c, face[j])]
         IN QuadFaces(Tail(faces), c,
                      Push3(Push3(ind, At(idx, 0), At(idx, 1), At(idx, 2)),
                            At(idx, 0), At(idx, 2), At(idx, 3)))

\* The switch of vtkUtils.ts:18-87: the index buffer after the pushes.
TriangulatePushes(t, c, ind) ==
    CASE t = 5 ->
           IF Len(c) >= 3 THEN Push3(ind, At(c, 0), At(c, 1), At(c, 2)) ELSE ind
      [] t = 7 ->
           IF Len(c) >= 3 THEN PolygonFan(c, 1, ind) ELSE ind
      [] t = 9 ->
           IF Len(c) >= 4
           THEN Push3(Push3(ind, At(c, 0), At(c, 1), At(c, 2)),
                      At(c, 0), At(c, 2), At(c, 3))
           ELSE ind
      [] t = 10 ->
           IF Len(c) >= 4
           THEN Push3(Push3(Push3(Push3(ind,
                      At(c, 0), At(c, 1), At(c, 2)),
                      At(c, 0), At(c, 2), At(c, 3)),
                      At(c, 0), At(c, 3), At(c, 1)),
                      At(c, 1), At(c, 3), At(c, 2))
           ELSE ind
      [] t = 12 ->
           IF Len(c) >= 8 THEN QuadFaces(hexFaces, c, ind) ELSE ind
      [] t = 13 ->
           IF Len(c) >= 6
           THEN QuadFaces(wedgeQuads, c,
                    Push3(Push3(ind, At(c, 0), At(c, 1), At(c, 2)),
                          At(c, 3), At(c, 5), At(c, 4)))
           ELSE ind
      [] t = 14 ->
           IF Len(c) >= 5
           THEN Push3(Push3(Push3(Push3(Push3(Push3(ind,
                      At(c, 0), At(c, 1), At(c, 2)),
                      At(c, 0), At(c, 2), At(c, 3)),
                      At(c, 0), At(c, 1), At(c, 4)),
                      At(c, 1), At(c, 2), At(c, 4)),
                      At(c, 2), At(c, 3), At(c, 4)),
                      At(c, 3), At(c, 0), At(c, 4))
           ELSE ind
      [] OTHER -> ind

\* the return without the subtraction of initialLength
TriangulateReturnTotal(initialLength, ind) == Len(ind) \div 3

\* vtkUtils.ts:89: (indices.length - initialLength) / 3.  The pushes come in
\* threes, so the JavaScript division is exact.
TriangulateReturn(initialLength, ind) == (Len(ind) - initialLength) \div 3

\* a triangulateCell that consumes its input list while it reads it
triangulateCellShifting(t, c, ind) ==
    LET out == TriangulatePushes(t, c, ind)
    IN [indices     |-> out,
        cellIndices |-> IF Len(out) > Len(ind) THEN Tail(c) ELSE c,
        ret         |-> TriangulateReturn(Len(ind), out),
        thrown      |-> FALSE]

\* The whole call: the two arrays it was handed, as they are when it returns,
\* and the returned count.  thrown is TRUE when the call raises.
triangulateCell(t, c, ind) ==
    LET out == TriangulatePushes(t, c, ind)
    IN [indices     |-> out,
        cellIndices |-> c,
        ret         |-> TriangulateReturn(Len(ind), out),
        thrown      |-> FALSE]

----------------------------------------------------------------------------
(* VTKUnstructuredLoader.parse, part_001:264-563.                          *)
(*                                                                         *)
(* A line of the input is a record: kw is its first token in lower case    *)
(* when that is one of the keywords the loop tests ("blank" for an empty   *)
(* or '#' line, "data" for any other line), n the number parseInt reads    *)
(* from the argument the keyword uses (NaN when the token is missing or    *)
(* not a number), nm the name token of SCALARS, vals what parseFloat makes *)
(* of the tokens of a data line (NaN for a token that is not a number).    *)

Ln(kw, n, nm, vals) == [kw |-> kw, n |-> n, nm |-> nm, vals |-> vals]

\* currentScalar = null (part_001:290)
NoScalar == [null |-> TRUE, name |-> "", components |-> 0, data |-> <<>>]

\* no geometry returned yet
NoMesh == [position |-> <<>>, hasIndex |-> FALSE, index |-> <<>>,
           pointData |-> <<>>, cellData |-> <<>>, cellIdMap |-> <<>>]

\* part_001:293-295: split, map(parseFloat), filter(n => !isNaN(n))
parseNumbers(tokens) == SelectSeq(tokens, LAMBDA x : x # NaN)

\* a store without the length guard: a JavaScript array grows when written past
\* its end
StorePointsGrowing(pts, cnt, vals) ==
    LET written == SubSeq(pts, 1, cnt) \o vals
    IN [points     |-> IF Len(written) >= Len(pts) THEN written
                       ELSE written \o SubSeq(pts, Len(written) + 1, Len(pts)),
        pointCount |-> cnt + Len(vals)]

\* part_001:384-386: for (v of vals) if (pointCount < points.length) points[pointCount++] = v
RECURSIVE StorePoints(_, _, _)
StorePoints(pts, cnt, vals) ==
    IF vals = <<>> THEN [points |-> pts, pointCount |-> cnt]
    ELSE IF cnt < Len(pts)
         THEN StorePoints([pts EXCEPT ![cnt + 1] = Head(vals)], cnt + 1, Tail(vals))
         ELSE StorePoints(pts, cnt, Tail(vals))

\* part_001:433-438 (and part_000:197-201): the min/max scan
RECURSIVE ScanMin(_, _)
ScanMin(data, min) ==
    IF data = <<>> THEN min
    ELSE ScanMin(Tail(data), IF JsLt(Head(data), min) THEN Head(data) ELSE min)

RECURSIVE ScanMax(_, _)
ScanMax(data, max) ==
    IF data = <<>> THEN max
    ELSE ScanMax(Tail(data), IF JsLt(max, Head(data)) THEN Head(data) ELSE max)

\* part_001:440-445 (and part_000:203): the field record
MakeField(name, data) ==
    [name |-> name, min |-> ScanMin(data, PosInf), max |-> ScanMax(data, NegInf),
     data |-> data]

\* part_001:427: section === 'POINT_DATA' ? numPoints : (cellTypes.length || numCells)
TargetCount(sec, nPoints, nCells, tys) ==
    IF sec = "POINT_DATA" THEN nPoints
    ELSE IF Len(tys) # 0 THEN Len(tys) ELSE nCells

\* part_001:431: currentScalar.data.length >= targetCount * currentScalar.components
ScalarComplete(data, target, components) ==
    JsGe(Len(data), JsMul(target, components))

\* every group taken for a polygon
InferTypeAllPolygons(nPts) == 7

\* a 2-point group taken for a vertex
InferTypeLineAsVertex(nPts) ==
    IF nPts = 1 \/ nPts = 2 THEN 1
    ELSE IF nPts = 3 THEN 5
    ELSE IF nPts = 4 THEN 9
    ELSE 7

\* part_001:505-509
InferType(nPts) ==
    IF nPts = 1 THEN 1
    ELSE IF nPts = 2 THEN 3
    ELSE IF nPts = 3 THEN 5
    ELSE IF nPts = 4 THEN 9
    ELSE 7

\* one cell-ID entry for the cell, however many triangles it gave
PushCellIdOnce(idMap, n, i) == Append(idMap, i)

\* entries that number the cells that gave triangles, not the walked cells
PushCellIdsDense(idMap, n, i) ==
    idMap \o Copies(n, Cardinality({ idMap[j] : j \in 1..Len(idMap) }))

\* part_001:540-542 (and part_000:179-181): for (t = 0; t < trianglesAdded; t++) cellIdMap.push(i)
PushCellIds(idMap, n, i) == idMap \o Copies(n, i)

\* part_001:522
LegacySafeNumCells == MathMin(<<numCells, Len(cellTypes)>>)

\* a collection that reads the indices but leaves cellDataIndex on the first
CollectIndicesNoAdvance(raw, cdi, j, nPts, acc) ==
    [cellIndices |-> SubSeq(raw, cdi + 1, IF cdi + nPts <= Len(raw) THEN cdi + nPts ELSE Len(raw)),
     cellDataIndex |-> cdi]

\* a collection that reads cellDataRaw[cellDataIndex++] whether it exists or not
RECURSIVE CollectIndicesUnguarded(_, _, _, _, _)
CollectIndicesUnguarded(raw, cdi, j, nPts, acc) ==
    IF JsLt(j, nPts)
    THEN CollectIndicesUnguarded(raw, cdi + 1, j + 1, nPts, Append(acc, Read(raw, cdi)))
    ELSE [cellIndices |-> acc, cellDataIndex |-> cdi]

\* part_001:532-536: for (j = 0; j < nPts; j++) if (cellDataIndex < length) push(raw[cellDataIndex++])
RECURSIVE CollectIndices(_, _, _, _, _)
CollectIndices(raw, cdi, j, nPts, acc) ==
    IF JsLt(j, nPts)
    THEN IF cdi < Len(raw)
         THEN CollectIndices(raw, cdi + 1, j + 1, nPts, Append(acc, At(raw, cdi)))
         ELSE CollectIndices(raw, cdi, j + 1, nPts, acc)
    ELSE [cellIndices |-> acc, cellDataIndex |-> cdi]

\* position attribute: new Float32Array(points), an empty slot becomes NaN
ToFloat32Array(a) == [j \in 1..Len(a) |-> IF IsNum(a[j]) THEN a[j] ELSE NaN]

\* a geometry whose index is set whatever indices holds
BuildGeometryIndexed(pts, ind, pd, cd, idMap) ==
    [position  |-> ToFloat32Array(pts),
     hasIndex  |-> TRUE,
     index     |-> ind,
     pointData |-> pd,
     cellData  |-> cd,
     cellIdMap |-> idMap]

\* part_001:545-560 (and part_000:236-252): the geometry and its userData
BuildGeometry(pts, ind, pd, cd, idMap) ==
    [position  |-> ToFloat32Array(pts),
     hasIndex  |-> Len(ind) > 0,
     index     |-> IF Len(ind) > 0 THEN ind ELSE <<>>,
     pointData |-> pd,
     cellData  |-> cd,
     cellIdMap |-> idMap]

\* section names of the keywords that only switch the section (part_001:328-350)
SectionOf(kw) ==
    CASE kw = "polygons" -> "POLYGONS"
      [] kw = "lines" -> "LINES"
      [] kw = "triangle_strips" -> "TRIANGLE_STRIPS"
      [] kw = "cell_types" -> "CELL_TYPES"
      [] kw = "point_data" -> "POINT_DATA"
      [] kw = "cell_data" -> "CELL_DATA"

CellSections == {"CELLS", "POLYGONS", "LINES", "TRIANGLE_STRIPS"}

\* the legacy decoder's variables as parse() declares them (part_001:270-290)
LegacyFresh ==
    /\ li = 0
    /\ section = "NONE"
    /\ subSection = "NONE"
    /\ numPoints = 0
    /\ numCells = 0
    /\ pointCount = 0
    /\ points = <<>>
    /\ cellDataRaw = <<>>
    /\ cellTypes = <<>>
    /\ currentScalar = NoScalar
    /\ index = 0
    /\ cellDataIndex = 0

LegacyIdle == lines = <<>> /\ LegacyFresh

OutIdle ==
    /\ ci = 0
    /\ pointDataFields = <<>>
    /\ cellDataFields = <<>>
    /\ cellIdMap = <<>>
    /\ mesh = NoMesh
    /\ error = ""

TriIdle ==
    /\ type = 0
    /\ cellIndices = <<>>
    /\ indices = <<>>
    /\ trianglesAdded = 0
    /\ before = [indices |-> <<>>, cellIndices |-> <<>>]

\* the line the loop is at
Cur == At(lines, li)

AtLine(kws) == pc = "lines" /\ li < Len(lines) /\ Cur.kw \in kws

\* part_001:299
LegacySkip ==
    /\ AtLine({"blank"})
    /\ li' = li + 1
    /\ UNCHANGED <<pc, xmlVars, triVars, lines, section, subSection, legAccum, currentScalar,
                   index, cellDataIndex, outVars>>

\* part_001:305-312: parts[1].toLowerCase() raises when the line has one token
LegacyDataset ==
    /\ AtLine({"dataset"})
    /\ IF Cur.n = NaN
       THEN pc' = "threw" /\ error' = "TypeError" /\ li' = li
       ELSE pc' = pc /\ error' = error /\ li' = li + 1
    /\ UNCHANGED <<xmlVars, triVars, lines, section, subSection, legAccum, currentScalar,
                   index, cellDataIndex, ci, pointDataFields, cellDataFields, cellIdMap,
                   mesh>>

\* part_001:314-320: new Array(numPoints * 3) raises for NaN and for a negative length
LegacyPoints ==
    /\ AtLine({"points"})
    /\ section' = "POINTS"
    /\ numPoints' = Cur.n
    /\ IF IsNum(Cur.n) /\ Cur.n >= 0
       THEN /\ points' = [j \in 1..(Cur.n * 3) |-> Hole]
            /\ pointCount' = 0
            /\ pc' = pc
            /\ error' = error
            /\ li' = li + 1
       ELSE /\ pc' = "threw"
            /\ error' = "RangeError"
            /\ UNCHANGED <<points, pointCount, li>>
    /\ UNCHANGED <<xmlVars, triVars, lines, subSection, numCells, cellDataRaw, cellTypes,
                   currentScalar, index, cellDataIndex, ci, pointDataFields,
                   cellDataFields, cellIdMap, mesh>>

\* part_001:322-326
LegacyCells ==
    /\ AtLine({"cells"})
    /\ section' = "CELLS"
    /\ numCells' = Cur.n
    /\ li' = li + 1
    /\ UNCHANGED <<pc, xmlVars, triVars, lines, subSection, numPoints, pointCount, points,
                   cellDataRaw, cellTypes, currentScalar, index, cellDataIndex, outVars>>

\* part_001:328-350
LegacySectionKeyword ==
    /\ AtLine({"polygons", "lines", "triangle_strips", "cell_types"})
    /\ section' = SectionOf(Cur.kw)
    /\ li' = li + 1
    /\ UNCHANGED <<pc, xmlVars, triVars, lines, subSection, legAccum, currentScalar, index,
                   cellDataIndex, outVars>>

\* part_001:352-362
LegacyAttributeKeyword ==
    /\ AtLine({"point_data", "cell_data"})
    /\ section' = SectionOf(Cur.kw)
    /\ subSection' = "NONE"
    /\ li' = li + 1
    /\ UNCHANGED <<pc, xmlVars, triVars, lines, legAccum, currentScalar, index, cellDataIndex,
                   outVars>>

\* part_001:365-374
LegacyScalars ==
    /\ AtLine({"scalars"})
    /\ subSection' = "SCALARS"
    /\ currentScalar' = [null |-> FALSE, name |-> Cur.nm, components |-> Cur.n,
                         data |-> <<>>]
    /\ li' = li + 1
    /\ UNCHANGED <<pc, xmlVars, triVars, lines, section, legAccum, index, cellDataIndex, outVars>>

\* part_001:376-379
LegacyLookupTable ==
    /\ AtLine({"lookup_table"})
    /\ li' = li + 1
    /\ UNCHANGED <<pc, xmlVars, triVars, lines, section, subSection, legAccum, currentScalar,
                   index, cellDataIndex, outVars>>

\* part_001:382-387
LegacyPointsData ==
    /\ AtLine({"data"})
    /\ section = "POINTS"
    /\ LET r == StorePoints(points, pointCount, parseNumbers(Cur.vals))
       IN points' = r.points /\ pointCount' = r.pointCount
    /\ li' = li + 1
    /\ UNCHANGED <<pc, xmlVars, triVars, lines, section, subSection, numPoints, numCells,
                   cellDataRaw, cellTypes, currentScalar, index, cellDataIndex, outVars>>

\* part_001:388-415
LegacyCellsData ==
    /\ AtLine({"data"})
    /\ section \in CellSections
    /\ cellDataRaw' = cellDataRaw \o parseNumbers(Cur.vals)
    /\ li' = li + 1
    /\ UNCHANGED <<pc, xmlVars, triVars, lines, section, subSection, numPoints, numCells,
                   pointCount, points, cellTypes, currentScalar, index, cellDataIndex,
                   outVars>>

\* a CELL_TYPES data line whose numbers go to the raw cell buffer
LegacyCellTypesDataMisrouted ==
    /\ AtLine({"data"})
    /\ section = "CELL_TYPES"
    /\ cellDataRaw' = cellDataRaw \o parseNumbers(Cur.vals)
    /\ li' = li + 1
    /\ UNCHANGED <<pc, xmlVars, triVars, lines, section, subSection, numPoints, numCells,
                   pointCount, points, cellTypes, currentScalar, index, cellDataIndex,
                   outVars>>

\* part_001:416-419
LegacyCellTypesData ==
    /\ AtLine({"data"})
    /\ section = "CELL_TYPES"
    /\ cellTypes' = cellTypes \o parseNumbers(Cur.vals)
    /\ li' = li + 1
    /\ UNCHANGED <<pc, xmlVars, triVars, lines, section, subSection, numPoints, numCells,
                   pointCount, points, cellDataRaw, currentScalar, index, cellDataIndex,
                   outVars>>

\* part_001:420-453
LegacyScalarData ==
    /\ AtLine({"data"})
    /\ section \in {"POINT_DATA", "CELL_DATA"}
    /\ subSection = "SCALARS"
    /\ ~currentScalar.null
    /\ LET data   == currentScalar.data \o parseNumbers(Cur.vals)
           target == TargetCount(section, numPoints, numCells, cellTypes)
       IN IF ScalarComplete(data, target, currentScalar.components)
          THEN /\ IF section = "POINT_DATA"
                  THEN /\ pointDataFields' =
                              Append(pointDataFields, MakeField(currentScalar.name, data))
                       /\ UNCHANGED cellDataFields
                  ELSE /\ cellDataFields' =
                              Append(cellDataFields, MakeField(currentScalar.name, data))
                       /\ UNCHANGED pointDataFields
               /\ subSection' = "NONE"
               /\ currentScalar' = NoScalar
          ELSE /\ currentScalar' = [currentScalar EXCEPT !.data = data]
               /\ UNCHANGED <<subSection, pointDataFields, cellDataFields>>
    /\ li' = li + 1
    /\ UNCHANGED <<pc, xmlVars, triVars, lines, section, legAccum, index, cellDataIndex, ci,
                   cellIdMap, mesh, error>>

\* a data line that no branch of part_001:382-453 takes
LegacyIgnoredData ==
    /\ AtLine({"data"})
    /\ \/ section = "NONE"
       \/ /\ section \in {"POINT_DATA", "CELL_DATA"}
          /\ ~(subSection = "SCALARS" /\ ~currentScalar.null)
    /\ li' = li + 1
    /\ UNCHANGED <<pc, xmlVars, triVars, lines, section, subSection, legAccum, currentScalar,
                   index, cellDataIndex, outVars>>

\* part_001:297 (the loop ends) and 488: is there anything to infer?
LegacyEndOfLines ==
    /\ pc = "lines"
    /\ li = Len(lines)
    /\ pc' = IF Len(cellTypes) = 0 /\ Len(cellDataRaw) > 0 THEN "infer" ELSE "walk"
    /\ UNCHANGED <<xmlVars, triVars, legVars, outVars>>

\* part_001:491-512: one turn of the while loop
LegacyInfer ==
    /\ pc = "infer"
    /\ JsLt(index, Len(cellDataRaw))
    /\ Len(cellTypes) < MaxInferred
    /\ LET nPts == Read(cellDataRaw, index)
       IN /\ cellTypes' = Append(cellTypes, InferType(nPts))
          /\ index' = JsAdd(index, JsAdd(nPts, 1))
    /\ UNCHANGED <<pc, xmlVars, triVars, lines, li, section, subSection, numPoints, numCells,
                   pointCount, points, cellDataRaw, currentScalar, cellDataIndex, outVars>>

\* part_001:491 (the loop ends) and 513
LegacyInferDone ==
    /\ pc = "infer"
    /\ ~JsLt(index, Len(cellDataRaw))
    /\ numCells' = Len(cellTypes)
    /\ pc' = "walk"
    /\ UNCHANGED <<xmlVars, triVars, lines, li, section, subSection, numPoints, pointCount, points,
                   cellDataRaw, cellTypes, currentScalar, index, cellDataIndex, outVars>>

\* part_001:524-543: one turn of the cell walk
LegacyWalk ==
    /\ pc = "walk"
    /\ JsLt(ci, LegacySafeNumCells)
    /\ cellDataIndex < Len(cellDataRaw)
    /\ LET t    == At(cellTypes, ci)
           nPts == At(cellDataRaw, cellDataIndex)
           g    == CollectIndices(cellDataRaw, cellDataIndex + 1, 0, nPts, <<>>)
           r    == triangulateCell(t, g.cellIndices, indices)
       IN /\ type' = t
          /\ before' = [indices |-> indices, cellIndices |-> g.cellIndices]
          /\ cellIndices' = r.cellIndices
          /\ indices' = r.indices
          /\ trianglesAdded' = r.ret
          /\ cellDataIndex' = g.cellDataIndex
          /\ IF r.thrown
             THEN pc' = "threw" /\ error' = "Error" /\ UNCHANGED <<cellIdMap, ci>>
             ELSE /\ cellIdMap' = PushCellIds(cellIdMap, r.ret, ci)
                  /\ ci' = ci + 1
                  /\ pc' = pc
                  /\ error' = error
    /\ UNCHANGED <<xmlVars, lines, li, section, subSection, legAccum, currentScalar,
                   index, pointDataFields, cellDataFields, mesh>>

\* part_001:527: break
LegacyWalkBreak ==
    /\ pc = "walk"
    /\ JsLt(ci, LegacySafeNumCells)
    /\ cellDataIndex >= Len(cellDataRaw)
    /\ pc' = "build"
    /\ UNCHANGED <<xmlVars, triVars, legVars, outVars>>

\* part_001:524: i < safeNumCells fails
LegacyWalkEnd ==
    /\ pc = "walk"
    /\ ~JsLt(ci, LegacySafeNumCells)
    /\ pc' = "build"
    /\ UNCHANGED <<xmlVars, triVars, legVars, outVars>>

\* part_001:545-562
LegacyBuild ==
    /\ pc = "build"
    /\ mesh' = BuildGeometry(points, indices, pointDataFields, cellDataFields, cellIdMap)
    /\ pc' = "done"
    /\ UNCHANGED <<xmlVars, triVars, legVars, ci, error, pointDataFields, cellDataFields, cellIdMap>>

NextLegacy ==
    \/ LegacySkip
    \/ LegacyDataset
    \/ LegacyPoints
    \/ LegacyCells
    \/ LegacySectionKeyword
    \/ LegacyAttributeKeyword
    \/ LegacyScalars
    \/ LegacyLookupTable
    \/ LegacyPointsData
    \/ LegacyCellsData
    \/ LegacyCellTypesData
    \/ LegacyScalarData
    \/ LegacyIgnoredData
    \/ LegacyEndOfLines
    \/ LegacyInfer
    \/ LegacyInferDone
    \/ LegacyWalk
    \/ LegacyWalkBreak
    \/ LegacyWalkEnd
    \/ LegacyBuild

----------------------------------------------------------------------------
(* Bytes, base64 and typed arrays as VTULoader uses them.                  *)
(*                                                                         *)
(* A byte is a number in 0..255.  A base64 text is a sequence of           *)
(* characters: 0..63 is the alphabet character of that value, B64Pad is    *)
(* '=', B64Space a white-space character, B64Bad any other character.      *)
(* A floating-point element is represented by its rank: the signed         *)
(* magnitude of its IEEE-754 single-precision bit pattern, which orders    *)
(* as the values do (the decoder only compares such elements).  Integer    *)
(* elements are the integers themselves.                                   *)

B64Pad == 64
B64Space == 65
B64Bad == 66

\* the result of a call that produced nothing: null, or an exception
Null == [null |-> TRUE, thrown |-> FALSE, vals |-> <<>>]
Thrown == [null |-> TRUE, thrown |-> TRUE, vals |-> <<>>]
Arr(vals) == [null |-> FALSE, thrown |-> FALSE, vals |-> vals]

\* three bytes of four alphabet characters, and the shorter tails
RECURSIVE B64Bytes(_)
B64Bytes(t) ==
    IF Len(t) >= 4
    THEN LET n == t[1] * 262144 + t[2] * 4096 + t[3] * 64 + t[4]
         IN <<n \div 65536, (n \div 256) % 256, n % 256>>
            \o B64Bytes(SubSeq(t, 5, Len(t)))
    ELSE IF Len(t) = 3
    THEN LET n == (t[1] * 4096 + t[2] * 64 + t[3]) \div 4
         IN <<n \div 256, n % 256>>
    ELSE IF Len(t) = 2
    THEN <<(t[1] * 64 + t[2]) \div 16>>
    ELSE <<>>

\* atob (part_000:87 and 327): white space is dropped, one or two '=' end a
\* text whose length is a multiple of 4, a length of 4k+1 or a character
\* outside the alphabet raises.  null stands for the exception.
Atob(text) ==
    LET t1 == SelectSeq(text, LAMBDA c : c # B64Space)
        n1 == Len(t1)
        t2 == IF n1 % 4 = 0 /\ n1 > 0 /\ t1[n1] = B64Pad
              THEN IF t1[n1 - 1] = B64Pad THEN SubSeq(t1, 1, n1 - 2)
                   ELSE SubSeq(t1, 1, n1 - 1)
              ELSE t1
    IN IF Len(t2) % 4 = 1 \/ (\E j \in 1..Len(t2) : t2[j] \notin 0..63)
       THEN Thrown
       ELSE Arr(B64Bytes(t2))

\* DataView.getUint32(k, true)
GetUint32(b, k) == b[k + 1] + 256 * b[k + 2] + 65536 * b[k + 3] + 16777216 * b[k + 4]

\* the element of an Int32Array over four little-endian bytes
Int32Of(b, k) ==
    b[k + 1] + 256 * b[k + 2] + 65536 * b[k + 3]
        + 16777216 * (IF b[k + 4] >= 128 THEN b[k + 4] - 256 ELSE b[k + 4])

\* the element read with its bytes in the opposite order
Float32OfBigEndian(b, k) ==
    LET mag == b[k + 4] + 256 * b[k + 3] + 65536 * b[k + 2] + 16777216 * (b[k + 1] % 128)
    IN IF b[k + 1] >= 128 THEN 0 - mag ELSE mag

\* the element of a Float32Array over four little-endian bytes, as its rank
Float32Of(b, k) ==
    LET mag  == b[k + 1] + 256 * b[k + 2] + 65536 * b[k + 3] + 16777216 * (b[k + 4] % 128)
        expo == (b[k + 4] % 128) * 2 + b[k + 3] \div 128
        mant == b[k + 1] + 256 * b[k + 2] + 65536 * (b[k + 3] % 128)
    IN IF expo = 255 /\ mant # 0 THEN NaN
       ELSE IF b[k + 4] >= 128 THEN 0 - mag ELSE mag

\* new Float32Array(buffer), new Int32Array(buffer): a RangeError unless the
\* byte length is a multiple of 4
Float32Array(buf) ==
    IF Len(buf) % 4 # 0 THEN Thrown
    ELSE Arr([j \in 1..(Len(buf) \div 4) |-> Float32Of(buf, 4 * (j - 1))])

Int32Array(buf) ==
    IF Len(buf) % 4 # 0 THEN Thrown
    ELSE Arr([j \in 1..(Len(buf) \div 4) |-> Int32Of(buf, 4 * (j - 1))])

\* part_000:380-385: BigInt64Array, then Number() into an Int32Array: the low
\* 32 bits of each element (for elements below 2^53 in magnitude)
Int64Array(buf) ==
    IF Len(buf) % 8 # 0 THEN Thrown
    ELSE Arr([j \in 1..(Len(buf) \div 8) |-> Int32Of(buf, 8 * (j - 1))])

\* the element of new Float32Array(new Float64Array(buffer)) over eight
\* little-endian bytes: the double rounded to single precision (to nearest,
\* ties to even), as its rank.  Doubles that round to a subnormal single are
\* not modelled.
Float64Of(b, k) ==
    LET expD == (b[k + 8] % 128) * 16 + b[k + 7] \div 16
        hi23 == (b[k + 7] % 16) * 524288 + b[k + 6] * 2048 + b[k + 5] * 8
                    + b[k + 4] \div 32
        rest == (b[k + 4] % 32) * 16777216 + b[k + 3] * 65536 + b[k + 2] * 256 + b[k + 1]
        expF == expD - 896
        r0   == expF * 8388608 + hi23
        mag  == CASE expD = 0 /\ hi23 = 0 /\ rest = 0 -> 0
                  [] expD = 2047 /\ (hi23 # 0 \/ rest # 0) -> NaN
                  [] expD = 2047 /\ hi23 = 0 /\ rest = 0 -> PosInf
                  [] expD < 2047 /\ expF >= 255 -> PosInf
                  [] expF >= 1 /\ expF <= 254 ->
                       IF rest > 268435456 \/ (rest = 268435456 /\ r0 % 2 = 1)
                       THEN r0 + 1 ELSE r0
    IN IF mag = NaN THEN NaN ELSE IF b[k + 8] >= 128 THEN 0 - mag ELSE mag

Float64Array(buf) ==
    IF Len(buf) % 8 # 0 THEN Thrown
    ELSE Arr([j \in 1..(Len(buf) \div 8) |-> Float64Of(buf, 8 * (j - 1))])

\* part_000:392: new Float32Array(buffer.byteLength / 4), zeros; the length
\* is cut to an integer
ZeroArray(buf) == Arr([j \in 1..(Len(buf) \div 4) |-> 0])

\* part_000:371-394
createTypedArray(ty, buf) ==
    LET made == CASE ty = "Float32" -> Float32Array(buf)
                  [] ty = "Float64" -> Float64Array(buf)
                  [] ty = "Int32" -> Int32Array(buf)
                  [] ty = "UInt32" -> Int32Array(buf)
                  [] ty = "Int64" -> Int64Array(buf)
                  [] ty = "UInt8" -> Arr(buf)
                  [] OTHER -> Float32Array(buf)
    IN IF made.thrown THEN ZeroArray(buf) ELSE made

\* part_000:354-366: the ASCII branch's conversion of one token.  tok is
\* what parseFloat / parseInt reads (NaN when it is no number); an integer
\* array stores NaN as 0 and a Uint8Array keeps the low 8 bits.
AsciiElement(ty, tok) ==
    IF ty \in {"Int32", "Int64"} THEN (IF tok = NaN THEN 0 ELSE tok)
    ELSE IF ty = "UInt8" THEN (IF tok = NaN THEN 0 ELSE tok % 256)
    ELSE tok

\* a bound test that takes the low word for the whole length
SegmentOutOfBoundsLowOnly(dataStart, low, high, byteLength) ==
    dataStart + low > byteLength

\* part_000:316: dataStart + byteSize > buffer.byteLength, with byteSize
\* low + high * 2^32 (part_000:309) kept as its two words
SegmentOutOfBounds(dataStart, low, high, byteLength) ==
    high > 0 \/ dataStart + low > byteLength

\* part_000:265-322: the appended branch
parseAppended(el, appendedMap, hSize) ==
    IF ~el.hasOffset \/ appendedMap.buffer.null THEN Null
    ELSE IF el.offset = NaN THEN Null
    ELSE LET buffer == appendedMap.buffer.vals
             start  == IF appendedMap.encoding = "raw"
                       THEN appendedMap.offsetStart + el.offset
                       ELSE el.offset
         IN IF start >= Len(buffer) THEN Null
            ELSE IF start + hSize > Len(buffer) THEN Null
            ELSE IF start < 0 THEN Thrown      \* getUint32: RangeError
            ELSE LET low       == GetUint32(buffer, start)
                     high      == IF hSize = 8 THEN GetUint32(buffer, start + 4) ELSE 0
                     dataStart == start + hSize
                 IN IF SegmentOutOfBounds(dataStart, low, high, Len(buffer)) THEN Null
                    ELSE createTypedArray(el.type,
                             SubSeq(buffer, dataStart + 1, dataStart + low))

\* the inline binary branch without its try / catch
parseBinaryUncaught(el, hSize) ==
    LET bytes == Atob(el.text)
    IN IF bytes.thrown THEN Thrown
       ELSE IF Len(bytes.vals) <= hSize THEN Null
       ELSE createTypedArray(el.type, SubSeq(bytes.vals, hSize + 1, Len(bytes.vals)))

\* part_000:324-345: the inline binary branch
parseBinary(el, hSize) ==
    LET bytes == Atob(el.text)
    IN IF bytes.thrown THEN Null
       ELSE IF Len(bytes.vals) <= hSize THEN Null
       ELSE createTypedArray(el.type, SubSeq(bytes.vals, hSize + 1, Len(bytes.vals)))

\* part_000:346-368: the ASCII branch
parseAscii(el) ==
    IF el.text = <<>> THEN Null
    ELSE Arr([j \in 1..Len(el.text) |-> AsciiElement(el.type, el.text[j])])

\* part_000:257-369
parseDataArray(el, appendedMap, hSize) ==
    IF el.format = "appended" THEN parseAppended(el, appendedMap, hSize)
    ELSE IF el.format = "binary" THEN parseBinary(el, hSize)
    ELSE parseAscii(el)

----------------------------------------------------------------------------
(* VTULoader.parse, part_000:44-255.                                       *)
(*                                                                         *)
(* doc is what DOMParser and the attribute reads give: which elements      *)
(* exist, the attributes parse() reads, and for each DataArray element a   *)
(* record of its format, type, Name, NumberOfComponents (as parseInt reads *)
(* it, 1 when absent), whether it has a non-empty offset attribute and     *)
(* what parseInt makes of it, and its trimmed text: the white-space        *)
(* separated tokens as parseFloat / parseInt read them for an ASCII array, *)
(* the base64 characters for a binary one.  doc.buffer is the file's bytes *)
(* (doc.isBuffer is FALSE when parse() was handed a string).               *)

El(format, ty, name, comps, text, hasOffset, offset) ==
    [format |-> format, type |-> ty, name |-> name, comps |-> comps, text |-> text,
     hasOffset |-> hasOffset, offset |-> offset]

NoElement == El("ascii", "", "", 1, <<>>, FALSE, NaN)

NoDoc ==
    [hasRoot |-> FALSE, headerType |-> "", isBuffer |-> FALSE, buffer |-> <<>>,
     appended |-> [present |-> FALSE, encoding |-> "", text |-> <<>>],
     hasGrid |-> FALSE, hasPiece |-> FALSE, numberOfPoints |-> 0, numberOfCells |-> 0,
     hasPoints |-> FALSE, pointsEl |-> NoElement, hasCells |-> FALSE,
     hasConnectivity |-> FALSE, connectivityEl |-> NoElement,
     hasOffsets |-> FALSE, offsetsEl |-> NoElement,
     hasTypes |-> FALSE, typesEl |-> NoElement,
     pointData |-> <<>>, cellData |-> <<>>]

\* part_000:68-72
NoAppended == [buffer |-> Null, offsetStart |-> 0, encoding |-> "base64"]

XmlIdle ==
    /\ doc = NoDoc
    /\ headerSize = 0
    /\ appendedDataMap = NoAppended
    /\ numberOfPoints = 0
    /\ numberOfCells = 0
    /\ pointsArray = Null
    /\ connectivity = Null
    /\ offsets = Null
    /\ types = Null
    /\ currentOffset = 0
    /\ da = 0

\* the '_' that starts an appended block, among base64 characters
B64Marker == 67

\* the bytes of the literal <AppendedData, and of '_'
AppendedTag == <<60, 65, 112, 112, 101, 110, 100, 101, 100, 68, 97, 116, 97>>
Underscore == 95

\* String.indexOf over bytes: the first position at or after from where pat
\* occurs, -1 when there is none
RECURSIVE IndexOf(_, _, _)
IndexOf(buf, pat, from) ==
    IF from + Len(pat) > Len(buf) THEN -1
    ELSE IF SubSeq(buf, from + 1, from + Len(pat)) = pat THEN from
    ELSE IndexOf(buf, pat, from + 1)

\* part_000:79-94: the base64 block, decoded once
AppendedBase64(text) ==
    LET base64 == IF text # <<>> /\ Head(text) = B64Marker THEN Tail(text) ELSE text
        bytes  == Atob(base64)
    IN [buffer      |-> IF bytes.thrown THEN Null ELSE bytes,
        offsetStart |-> 0,
        encoding    |-> "base64"]

\* the raw block with offsets counted from the marker itself
AppendedRawAtMarker(buf) ==
    LET tagIndex    == IndexOf(buf, AppendedTag, 0)
        markerIndex == IF tagIndex = -1 THEN -1 ELSE IndexOf(buf, <<Underscore>>, tagIndex)
    IN IF tagIndex # -1 /\ markerIndex # -1
       THEN [buffer |-> Arr(buf), offsetStart |-> markerIndex, encoding |-> "raw"]
       ELSE [buffer |-> Null, offsetStart |-> 0, encoding |-> "raw"]

\* part_000:95-120: the raw block, found in the file's bytes
AppendedRaw(buf) ==
    LET tagIndex    == IndexOf(buf, AppendedTag, 0)
        markerIndex == IF tagIndex = -1 THEN -1 ELSE IndexOf(buf, <<Underscore>>, tagIndex)
    IN IF tagIndex # -1 /\ markerIndex # -1
       THEN [buffer |-> Arr(buf), offsetStart |-> markerIndex + 1, encoding |-> "raw"]
       ELSE [buffer |-> Null, offsetStart |-> 0, encoding |-> "raw"]

\* part_000:68-121
FindAppended(d) ==
    IF ~d.appended.present THEN NoAppended
    ELSE IF d.appended.encoding = "base64" THEN AppendedBase64(d.appended.text)
    ELSE IF d.appended.encoding = "raw" /\ d.isBuffer THEN AppendedRaw(d.buffer)
    ELSE [buffer |-> Null, offsetStart |-> 0, encoding |-> d.appended.encoding]

\* the declared count alone, not clamped to the arrays
XmlDeclaredNumCells == numberOfCells

\* part_000:162
XmlSafeNumCells == MathMin(<<numberOfCells, Len(offsets.vals), Len(types.vals)>>)

\* part_000:170-174: for (k = currentOffset; k < nextOffset; k++) if (k < length) push(conn[k])
RECURSIVE SliceConnectivity(_, _, _, _)
SliceConnectivity(conn, k, nextOffset, acc) ==
    IF JsLt(k, nextOffset)
    THEN SliceConnectivity(conn, k + 1, nextOffset,
                           IF k < Len(conn) THEN Append(acc, Read(conn, k)) ELSE acc)
    ELSE acc

\* a data group whose new field goes in front of the earlier ones
FieldOfArrayPrepended(fields, el, appendedMap, hSize) ==
    IF el.comps # 1 THEN [fields |-> fields, thrown |-> FALSE]
    ELSE LET arr == parseDataArray(el, appendedMap, hSize)
         IN IF arr.thrown THEN [fields |-> fields, thrown |-> TRUE]
            ELSE IF arr.null \/ Len(arr.vals) = 0 THEN [fields |-> fields, thrown |-> FALSE]
            ELSE [fields |-> <<MakeField(el.name, arr.vals)>> \o fields, thrown |-> FALSE]

\* part_000:190-206 (and 215-231): what one DataArray of a data group adds
\* to the group's fields
FieldOfArray(fields, el, appendedMap, hSize) ==
    IF el.comps # 1 THEN [fields |-> fields, thrown |-> FALSE]
    ELSE LET arr == parseDataArray(el, appendedMap, hSize)
         IN IF arr.thrown THEN [fields |-> fields, thrown |-> TRUE]
            ELSE IF arr.null THEN [fields |-> fields, thrown |-> FALSE]
            ELSE IF Len(arr.vals) > 0
                 THEN [fields |-> Append(fields, MakeField(el.name, arr.vals)),
                       thrown |-> FALSE]
                 ELSE [fields |-> fields, thrown |-> FALSE]

XmlStay == UNCHANGED <<triVars, legVars, ci, pointDataFields, cellDataFields, cellIdMap,
                       mesh>>

\* part_000:59-65
XmlRoot ==
    /\ pc = "xml_root"
    /\ IF ~doc.hasRoot
       THEN /\ pc' = "threw"
            /\ error' = "Invalid VTU file: Missing VTKFile tag"
            /\ UNCHANGED headerSize
       ELSE /\ headerSize' = IF doc.headerType = "UInt64" THEN 8 ELSE 4
            /\ pc' = "xml_appended"
            /\ error' = error
    /\ XmlStay
    /\ UNCHANGED <<doc, appendedDataMap, numberOfPoints, numberOfCells, xmlArrays,
                   currentOffset, da>>

\* part_000:68-121
XmlAppended ==
    /\ pc = "xml_appended"
    /\ appendedDataMap' = FindAppended(doc)
    /\ pc' = "xml_piece"
    /\ XmlStay
    /\ UNCHANGED <<doc, headerSize, numberOfPoints, numberOfCells, xmlArrays,
                   currentOffset, da, error>>

\* the grid and piece lookups without their checks
XmlPieceUnchecked ==
    /\ pc = "xml_piece"
    /\ numberOfPoints' = doc.numberOfPoints
    /\ numberOfCells' = doc.numberOfCells
    /\ pc' = "xml_points"
    /\ XmlStay
    /\ UNCHANGED <<doc, headerSize, appendedDataMap, xmlArrays, currentOffset, da, error>>

\* part_000:123-130
XmlPiece ==
    /\ pc = "xml_piece"
    /\ IF ~doc.hasGrid
       THEN /\ pc' = "threw"
            /\ error' = "Invalid VTU file: Missing UnstructuredGrid tag"
            /\ UNCHANGED <<numberOfPoints, numberOfCells>>
       ELSE IF ~doc.hasPiece
       THEN /\ pc' = "threw"
            /\ error' = "Invalid VTU file: Missing Piece tag"
            /\ UNCHANGED <<numberOfPoints, numberOfCells>>
       ELSE /\ numberOfPoints' = doc.numberOfPoints
            /\ numberOfCells' = doc.numberOfCells
            /\ pc' = "xml_points"
            /\ error' = error
    /\ XmlStay
    /\ UNCHANGED <<doc, headerSize, appendedDataMap, xmlArrays, currentOffset, da>>

\* part_000:133-139
XmlPoints ==
    /\ pc = "xml_points"
    /\ LET arr == parseDataArray(doc.pointsEl, appendedDataMap, headerSize)
       IN IF ~doc.hasPoints
          THEN /\ pc' = "threw"
               /\ error' = "Missing Points DataArray"
               /\ UNCHANGED pointsArray
          ELSE IF arr.thrown
          THEN /\ pc' = "threw"
               /\ error' = "RangeError"
               /\ UNCHANGED pointsArray
          ELSE IF arr.null
          THEN /\ pc' = "threw"
               /\ error' = "Failed to parse Points data (empty or invalid)"
               /\ UNCHANGED pointsArray
          ELSE /\ pointsArray' = arr
               /\ pc' = "xml_cells"
               /\ error' = error
    /\ XmlStay
    /\ UNCHANGED <<doc, headerSize, appendedDataMap, numberOfPoints, numberOfCells,
                   connectivity, offsets, types, currentOffset, da>>

\* part_000:142-153
XmlCells ==
    /\ pc = "xml_cells"
    /\ LET c == parseDataArray(doc.connectivityEl, appendedDataMap, headerSize)
           o == parseDataArray(doc.offsetsEl, appendedDataMap, headerSize)
           t == parseDataArray(doc.typesEl, appendedDataMap, headerSize)
       IN IF ~doc.hasCells
          THEN /\ pc' = "threw"
               /\ error' = "Missing Cells"
               /\ UNCHANGED <<connectivity, offsets, types>>
          ELSE IF ~doc.hasConnectivity \/ ~doc.hasOffsets \/ ~doc.hasTypes
          THEN /\ pc' = "threw"
               /\ error' = "Incomplete Cell data (connectivity, offsets, or types missing)"
               /\ UNCHANGED <<connectivity, offsets, types>>
          ELSE IF c.thrown \/ o.thrown \/ t.thrown
          THEN /\ pc' = "threw"
               /\ error' = "RangeError"
               /\ UNCHANGED <<connectivity, offsets, types>>
          ELSE /\ connectivity' = c
               /\ offsets' = o
               /\ types' = t
               /\ pc' = "xml_walk"
               /\ error' = error
    /\ XmlStay
    /\ UNCHANGED <<doc, headerSize, appendedDataMap, numberOfPoints, numberOfCells,
                   pointsArray, currentOffset, da>>

\* part_000:161-182: one turn of the cell walk
XmlWalk ==
    /\ pc = "xml_walk"
    /\ ~connectivity.null /\ ~offsets.null /\ ~types.null
    /\ JsLt(ci, XmlSafeNumCells)
    /\ LET nextOffset == Read(offsets.vals, ci)
           t          == Read(types.vals, ci)
           slice      == SliceConnectivity(connectivity.vals, currentOffset, nextOffset, <<>>)
           r          == triangulateCell(t, slice, indices)
       IN /\ type' = t
          /\ before' = [indices |-> indices, cellIndices |-> slice]
          /\ cellIndices' = r.cellIndices
          /\ indices' = r.indices
          /\ trianglesAdded' = r.ret
          /\ currentOffset' = nextOffset
          /\ IF r.thrown
             THEN pc' = "threw" /\ error' = "Error" /\ UNCHANGED <<cellIdMap, ci>>
             ELSE /\ cellIdMap' = PushCellIds(cellIdMap, r.ret, ci)
                  /\ ci' = ci + 1
                  /\ pc' = pc
                  /\ error' = error
    /\ UNCHANGED <<legVars, doc, headerSize, appendedDataMap, numberOfPoints,
                   numberOfCells, xmlArrays, da, pointDataFields, cellDataFields, mesh>>

\* part_000:161 (an array is null) or 164 (i < safeNumCells fails)
XmlWalkEnd ==
    /\ pc = "xml_walk"
    /\ \/ connectivity.null \/ offsets.null \/ types.null
       \/ ~JsLt(ci, XmlSafeNumCells)
    /\ pc' = "xml_pointdata"
    /\ da' = 0
    /\ UNCHANGED <<triVars, legVars, doc, headerSize, appendedDataMap, numberOfPoints,
                   numberOfCells, xmlArrays, currentOffset, outVars>>

\* part_000:190-207: one DataArray of PointData
XmlPointData ==
    /\ pc = "xml_pointdata"
    /\ da < Len(doc.pointData)
    /\ LET r == FieldOfArray(pointDataFields, At(doc.pointData, da), appendedDataMap,
                             headerSize)
       IN /\ pointDataFields' = r.fields
          /\ IF r.thrown
             THEN pc' = "threw" /\ error' = "RangeError" /\ da' = da
             ELSE pc' = pc /\ error' = error /\ da' = da + 1
    /\ UNCHANGED <<triVars, legVars, doc, headerSize, appendedDataMap, numberOfPoints,
                   numberOfCells, xmlArrays, currentOffset, ci, cellDataFields, cellIdMap,
                   mesh>>

\* part_000:208: the forEach over PointData ends
XmlPointDataEnd ==
    /\ pc = "xml_pointdata"
    /\ da = Len(doc.pointData)
    /\ pc' = "xml_celldata"
    /\ da' = 0
    /\ UNCHANGED <<triVars, legVars, doc, headerSize, appendedDataMap, numberOfPoints,
                   numberOfCells, xmlArrays, currentOffset, outVars>>

\* part_000:215-232: one DataArray of CellData
XmlCellData ==
    /\ pc = "xml_celldata"
    /\ da < Len(doc.cellData)
    /\ LET r == FieldOfArray(cellDataFields, At(doc.cellData, da), appendedDataMap,
                             headerSize)
       IN /\ cellDataFields' = r.fields
          /\ IF r.thrown
             THEN pc' = "threw" /\ error' = "RangeError" /\ da' = da
             ELSE pc' = pc /\ error' = error /\ da' = da + 1
    /\ UNCHANGED <<triVars, legVars, doc, headerSize, appendedDataMap, numberOfPoints,
                   numberOfCells, xmlArrays, currentOffset, ci, pointDataFields, cellIdMap,
                   mesh>>

\* part_000:233-254: the forEach over CellData ends; the geometry is built
XmlBuild ==
    /\ pc = "xml_celldata"
    /\ da = Len(doc.cellData)
    /\ mesh' = BuildGeometry(pointsArray.vals, indices, pointDataFields, cellDataFields,
                             cellIdMap)
    /\ pc' = "done"
    /\ UNCHANGED <<triVars, legVars, xmlVars, ci, pointDataFields, cellDataFields,
                   cellIdMap, error>>

NextXml ==
    \/ XmlRoot
    \/ XmlAppended
    \/ XmlPiece
    \/ XmlPoints
    \/ XmlCells
    \/ XmlWalk
    \/ XmlWalkEnd
    \/ XmlPointData
    \/ XmlPointDataEnd
    \/ XmlCellData
    \/ XmlBuild

----------------------------------------------------------------------------
(* The legacy files the decoder is run on.                                 *)

Kw(k) == Ln(k, 0, "", <<>>)
KwN(k, n) == Ln(k, n, "", <<>>)
Scalars(nm, comps) == Ln("scalars", comps, nm, <<>>)
DataLine(vals) == Ln("data", 0, "", vals)

\* the sequences over S of length at most n
SeqsUpTo(S, n) == UNION { [1..k -> S] : k \in 0..n }

\* vals cut into data lines of at most m tokens
RECURSIVE Chunk(_, _)
Chunk(vals, m) ==
    IF vals = <<>> THEN <<>>
    ELSE IF Len(vals) <= m THEN <<DataLine(vals)>>
    ELSE <<DataLine(SubSeq(vals, 1, m))>> \o Chunk(SubSeq(vals, m + 1, Len(vals)), m)

\* POINTS n followed by k coordinate values, three to a line
PointsBlock(n, k) ==
    <<KwN("points", n)>> \o Chunk([j \in 1..k |-> j % (MaxVal + 1)], 3)

\* arity-prefixed groups: triangle, quad, and a group cut short
CellGroups == { <<3, 0, 1, 2>>, <<4, 0, 1, 2, 3>>, <<3, 0>> }

\* also a vertex, a line, a pentagon, and a group whose arity prefix is negative
PolyGroups == CellGroups \cup { <<1, 0>>, <<2, 0, 1>>, <<5, 0, 1, 2, 3, 4>>, <<-1, 0>> }

TypeCodes == {3, 5, 7, 9}

\* one group to a line
GroupLines(gs) == [j \in 1..Len(gs) |-> DataLine(gs[j])]

TypeBlocks ==
    { <<>> } \cup { <<Kw("cell_types"), DataLine(ts)>> : ts \in SeqsUpTo(TypeCodes, MaxCells) }

\* unstructured grids: POINTS, CELLS n, groups, CELL_TYPES
FilesCells ==
    { PointsBlock(4, 12) \o <<KwN("cells", n)>> \o GroupLines(gs) \o ty :
        n \in (1..MaxCells) \cup {NaN},
        gs \in SeqsUpTo(CellGroups, MaxCells),
        ty \in TypeBlocks }

\* poly data: POINTS, then one of POLYGONS / LINES / TRIANGLE_STRIPS, no CELL_TYPES
FilesPoly ==
    { PointsBlock(1, 3) \o <<Kw(h)>> \o GroupLines(gs) :
        h \in {"polygons", "lines", "triangle_strips"},
        gs \in SeqsUpTo(PolyGroups, MaxCells) }

\* headers and POINTS sections whose count and values disagree
FilesPoints ==
    { hd \o PointsBlock(n, k) :
        hd \in { <<>>, <<Kw("blank"), KwN("dataset", 1)>>, <<KwN("dataset", NaN)>> },
        n \in (0..MaxPoints) \cup {NaN, -1},
        k \in 0..(3 * MaxPoints + 1) }

\* what precedes the attribute sections: nothing; two points and two typed
\* cells; one point and an untyped polygon
FieldContexts2 ==
    PointsBlock(2, 6) \o <<KwN("cells", 2), DataLine(<<3, 0, 1, 2>>),
                           DataLine(<<4, 0, 1, 2, 3>>), Kw("cell_types"),
                           DataLine(<<5, 9>>)>>

FieldContexts ==
    { <<>>,
      FieldContexts2,
      PointsBlock(1, 3) \o <<Kw("polygons"), DataLine(<<3, 0, 1, 2>>)>> }

\* value lines of a SCALARS block; the last holds no number at all
FieldLineSet ==
    { DataLine(<<v>>) : v \in {0, MaxVal} }
    \cup { DataLine(<<MaxVal, 0>>), DataLine(<<0, 1>>), DataLine(<<NaN, NaN>>) }

\* LOOKUP_TABLE default: the line names a table and carries no number
LookupTableDefault == Ln("lookup_table", NaN, "default", <<>>)

FieldBlocks ==
    { <<Scalars("a", c.comps)>> \o (IF c.lut THEN <<LookupTableDefault>> ELSE <<>>) \o ls :
        c \in { [comps |-> 1, lut |-> FALSE], [comps |-> 1, lut |-> TRUE],
                [comps |-> 2, lut |-> FALSE] },
        ls \in SeqsUpTo(FieldLineSet, MaxFieldLines) }

\* what follows the first field
FieldTails ==
    { <<>>,
      <<Scalars("b", 1), DataLine(<<1>>), DataLine(<<0>>)>>,
      <<Kw("cell_data"), Scalars("b", 1), DataLine(<<MaxVal, 0>>)>> }

FilesFields ==
    { cx \o <<Kw(h)>> \o fb \o tl :
        cx \in FieldContexts, h \in {"point_data", "cell_data"},
        fb \in FieldBlocks, tl \in FieldTails }

\* a color table: LOOKUP_TABLE t size, then size rows of four numbers.  Every
\* number of the table is MaxVal + 1, which no scalar value of a generated
\* file is, so that a number of the table shows wherever it ends up.
ColorTable ==
    <<Ln("lookup_table", MaxVal + 1, "t", <<>>)>>
        \o Copies(MaxVal + 1, DataLine(Copies(4, MaxVal + 1)))

\* two points and two typed cells, then a SCALARS block of no, one or two
\* values (two complete it), a color table, and possibly another field
FilesLookup ==
    { FieldContexts2 \o <<Kw(h), Scalars("a", 1)>> \o ref \o vs \o ColorTable \o tl :
        h \in {"point_data", "cell_data"},
        ref \in { <<>>, <<LookupTableDefault>> },
        vs \in { <<>>, <<DataLine(<<0>>)>>, <<DataLine(<<MaxVal, 0>>)>> },
        tl \in { <<>>, <<Scalars("b", 1), DataLine(<<1, 0>>)>> } }

\* a second POINTS line after a POINTS section that stored its point
FilesTwoPoints ==
    { PointsBlock(1, 3) \o PointsBlock(n, k) : n \in {0, MaxPoints}, k \in {0, 3} }

LegacyFiles ==
    FilesCells \cup FilesPoly \cup FilesPoints \cup FilesFields \cup FilesTwoPoints
        \cup FilesLookup

InitLegacy ==
    /\ pc = "lines"
    /\ lines \in LegacyFiles
    /\ LegacyFresh
    /\ XmlIdle
    /\ OutIdle
    /\ TriIdle

SpecLegacy == InitLegacy /\ [][NextLegacy]_vars

----------------------------------------------------------------------------
(* The XML documents the decoder is run on.                                *)

\* the little-endian bytes of a 32-bit word
U32LE(n) == <<n % 256, (n \div 256) % 256, (n \div 65536) % 256, n \div 16777216>>

\* a length header of hSize bytes
Header(n, hSize) == U32LE(n) \o (IF hSize = 8 THEN <<0, 0, 0, 0>> ELSE <<>>)

HeaderSizeOf(ht) == IF ht = "UInt64" THEN 8 ELSE 4

\* the bytes that hold vals as elements of type ty
BytesOf(ty, vals) ==
    IF ty = "UInt8" THEN vals ELSE Flatten([j \in 1..Len(vals) |-> U32LE(vals[j])])

\* btoa: the base64 text of a byte sequence
RECURSIVE Btoa(_)
Btoa(b) ==
    IF Len(b) >= 3
    THEN LET n == b[1] * 65536 + b[2] * 256 + b[3]
         IN <<n \div 262144, (n \div 4096) % 64, (n \div 64) % 64, n % 64>>
            \o Btoa(SubSeq(b, 4, Len(b)))
    ELSE IF Len(b) = 2
    THEN LET n == (b[1] * 256 + b[2]) * 4
         IN <<n \div 4096, (n \div 64) % 64, n % 64, B64Pad>>
    ELSE IF Len(b) = 1
    THEN <<(b[1] * 16) \div 64, (b[1] * 16) % 64, B64Pad, B64Pad>>
    ELSE <<>>

AsciiEl(ty, name, comps, toks) == El("ascii", ty, name, comps, toks, FALSE, NaN)
BinaryEl(ty, name, text) == El("binary", ty, name, 1, text, FALSE, NaN)
AppendedEl(ty, name, hasOffset, offset) == El("appended", ty, name, 1, <<>>, hasOffset, offset)

\* a well-formed document: four points, a triangle and a quad, no data arrays
BaseDoc ==
    [hasRoot |-> TRUE, headerType |-> "UInt32", isBuffer |-> TRUE, buffer |-> <<>>,
     appended |-> [present |-> FALSE, encoding |-> "", text |-> <<>>],
     hasGrid |-> TRUE, hasPiece |-> TRUE, numberOfPoints |-> 4, numberOfCells |-> 2,
     hasPoints |-> TRUE,
     pointsEl |-> AsciiEl("Float32", "Points", 3, [j \in 1..12 |-> j % 2]),
     hasCells |-> TRUE,
     hasConnectivity |-> TRUE,
     connectivityEl |-> AsciiEl("Int32", "connectivity", 1, <<0, 1, 2, 0, 1, 2, 3>>),
     hasOffsets |-> TRUE,
     offsetsEl |-> AsciiEl("Int32", "offsets", 1, <<3, 7>>),
     hasTypes |-> TRUE,
     typesEl |-> AsciiEl("UInt8", "types", 1, <<5, 9>>),
     pointData |-> <<>>, cellData |-> <<>>]

\* documents that lack an element, or declare another header type
DocsStructure ==
    { [BaseDoc EXCEPT ![f] = FALSE] :
        f \in {"hasRoot", "hasGrid", "hasPiece", "hasPoints", "hasCells",
               "hasConnectivity", "hasOffsets", "hasTypes"} }
    \cup { [BaseDoc EXCEPT !.headerType = ht] : ht \in {"UInt32", "UInt64", "", "Int32"} }

OffsetVals == {-2, 3, 7}
XmlTypeCodes == {3, 5, 9}

\* documents whose declared cell count, offsets, types and connectivity vary
DocsCells ==
    { [BaseDoc EXCEPT !.numberOfCells = n,
                      !.offsetsEl = AsciiEl("Int32", "offsets", 1, os),
                      !.typesEl = AsciiEl("UInt8", "types", 1, ts),
                      !.connectivityEl = AsciiEl("Int32", "connectivity", 1, cn)] :
        n \in {0, 1, MaxCells, NaN},
        os \in SeqsUpTo(OffsetVals, MaxCells),
        ts \in SeqsUpTo(XmlTypeCodes, MaxCells),
        cn \in { <<0, 1, 2, 0, 1, 2, 3>>, <<0, 1, 2>> } }

\* the arrays of a document, with the element type and the values each holds
\* when it is well-formed
ArrayRoles ==
    { [role |-> "points", ty |-> "Float32", name |-> "Points",
       vals |-> [j \in 1..12 |-> j % 2]],
      [role |-> "connectivity", ty |-> "Int32", name |-> "connectivity",
       vals |-> <<0, 1, 2, 0, 1, 2, 3>>],
      [role |-> "offsets", ty |-> "Int32", name |-> "offsets", vals |-> <<3, 7>>],
      [role |-> "types", ty |-> "UInt8", name |-> "types", vals |-> <<5, 9>>],
      [role |-> "pointData", ty |-> "Float32", name |-> "pa",
       vals |-> <<MaxVal, 0, 1, 1>>],
      [role |-> "cellData", ty |-> "Float32", name |-> "ca", vals |-> <<1, 0>>] }

\* inline binary texts for an array: well-formed; with a character outside
\* the alphabet; cut to five characters; holding the header alone; holding
\* one byte too many
InlineTexts(r, hSize) ==
    LET bytes == BytesOf(r.ty, r.vals)
        good  == Btoa(Header(Len(bytes), hSize) \o bytes)
    IN { good,
         [good EXCEPT ![2] = B64Bad],
         SubSeq(good, 1, 5),
         Btoa(Header(Len(bytes), hSize)),
         Btoa(Header(Len(bytes), hSize) \o bytes \o <<0>>) }

\* an appended block for an array: its segment, then a header that declares
\* more bytes than follow
AppendedBytes(r, hSize) ==
    LET bytes == BytesOf(r.ty, r.vals)
    IN Header(Len(bytes), hSize) \o bytes \o Header(Len(bytes) + 100, hSize) \o <<1, 2>>

\* offset attributes: the segment; the overlong header; the end of the block;
\* two bytes before the end; negative; far negative; not a number
AppendedOffsets(r, hSize) ==
    LET n == Len(BytesOf(r.ty, r.vals))
        m == Len(AppendedBytes(r, hSize))
    IN {0, hSize + n, m, m - 2, -1, -100, NaN}

\* the file's bytes around a raw appended block
RawFile(block) == <<60, 63>> \o AppendedTag \o <<62, Underscore>> \o block

\* doc with the array of role r replaced by el
WithArray(d, r, el) ==
    CASE r.role = "points" -> [d EXCEPT !.pointsEl = el]
      [] r.role = "connectivity" -> [d EXCEPT !.connectivityEl = el]
      [] r.role = "offsets" -> [d EXCEPT !.offsetsEl = el]
      [] r.role = "types" -> [d EXCEPT !.typesEl = el]
      [] r.role = "pointData" -> [d EXCEPT !.pointData = <<el>>]
      [] r.role = "cellData" -> [d EXCEPT !.cellData = <<el>>]

\* documents with one array inline binary
DocsInlineOf(ht, r) ==
    { WithArray([BaseDoc EXCEPT !.headerType = ht], r, BinaryEl(r.ty, r.name, tx)) :
        tx \in InlineTexts(r, HeaderSizeOf(ht)) }

DocsInline ==
    UNION { DocsInlineOf(ht, r) : ht \in {"UInt32", "UInt64"}, r \in ArrayRoles }

\* documents with one array appended, in a base64 or raw block
DocsAppendedOf(ht, r) ==
    LET hSize == HeaderSizeOf(ht)
        block == AppendedBytes(r, hSize)
        b64   == [present |-> TRUE, encoding |-> "base64", text |-> <<B64Marker>> \o Btoa(block)]
        bad   == [present |-> TRUE, encoding |-> "base64", text |-> <<B64Marker, 1, B64Bad>>]
        raw   == [present |-> TRUE, encoding |-> "raw", text |-> <<>>]
        base  == [BaseDoc EXCEPT !.headerType = ht]
    IN { WithArray([base EXCEPT !.appended = b64], r, AppendedEl(r.ty, r.name, TRUE, o)) :
            o \in AppendedOffsets(r, hSize) }
       \cup
       { WithArray([base EXCEPT !.appended = raw, !.buffer = RawFile(block)], r,
                   AppendedEl(r.ty, r.name, TRUE, o)) :
            o \in AppendedOffsets(r, hSize) }
       \cup
       { WithArray([base EXCEPT !.appended = bad], r, AppendedEl(r.ty, r.name, TRUE, 0)),
         WithArray([base EXCEPT !.appended = b64], r, AppendedEl(r.ty, r.name, FALSE, NaN)),
         WithArray([base EXCEPT !.appended = raw, !.isBuffer = FALSE], r,
                   AppendedEl(r.ty, r.name, TRUE, 0)),
         WithArray([base EXCEPT !.appended = raw, !.buffer = <<60, 63, 62>> \o block], r,
                   AppendedEl(r.ty, r.name, TRUE, 0)),
         WithArray([base EXCEPT !.appended = raw, !.buffer = RawFile(<<9, 9, 9>> \o block)], r,
                   AppendedEl(r.ty, r.name, TRUE, 3)),
         WithArray([base EXCEPT !.appended = raw, !.buffer = RawFile(<<9, 9, 9>> \o block)], r,
                   AppendedEl(r.ty, r.name, TRUE, 0)) }

DocsAppended ==
    UNION { DocsAppendedOf(ht, r) : ht \in {"UInt32", "UInt64"}, r \in ArrayRoles }

\* DataArray elements of a PointData or CellData group: ASCII arrays of
\* several lengths, one with a token that is no number, one with no text,
\* one of two components; binary arrays, well-formed and malformed
FieldElements ==
    { AsciiEl("Float32", "a", 1, <<MaxVal, 0, 1, 1>>),
      AsciiEl("Float32", "b", 1, <<1>>),
      AsciiEl("Float32", "n", 1, <<NaN, 1>>),
      AsciiEl("Float32", "e", 1, <<>>),
      AsciiEl("Float32", "v", 2, <<0, 1, 0, 1, 0, 1, 0, 1>>),
      BinaryEl("Float32", "g", Btoa(Header(8, 4) \o U32LE(1) \o U32LE(0))),
      BinaryEl("Float32", "m", [Btoa(Header(8, 4) \o U32LE(1) \o U32LE(0)) EXCEPT ![3] = B64Bad]) }

\* documents with up to MaxFields arrays in PointData and up to one in CellData
DocsFields ==
    { [BaseDoc EXCEPT !.pointData = pd, !.cellData = cd] :
        pd \in SeqsUpTo(FieldElements, MaxFields),
        cd \in SeqsUpTo(FieldElements, 1) }

\* Float32 values: 0, 1, -1.5 and NaN
FloatSamples == {0, 1065353216, -1069547520, NaN}

FloatSeqs == SeqsUpTo(FloatSamples, MaxFloats) \ {<<>>}

\* the four little-endian bytes of a Float32 value (of the quiet NaN for NaN)
Float32Bytes(v) ==
    IF v = NaN THEN <<0, 0, 192, 127>>
    ELSE IF v < 0 THEN [U32LE(0 - v) EXCEPT ![4] = @ + 128]
    ELSE U32LE(v)

\* the base64 text of a headerSize-byte length header and the values' bytes
EncodeFloat32(vs, hSize) ==
    Btoa(Header(4 * Len(vs), hSize) \o Flatten([j \in 1..Len(vs) |-> Float32Bytes(vs[j])]))

\* the base64 texts of blocks of at most headerSize bytes
ShortBlocks(hSize) == { Btoa(SubSeq(Header(4, hSize), 1, n)) : n \in 0..hSize }

\* documents whose PointData is one inline binary Float32 array: an encoded
\* sequence of values, or a block too short to hold any
DocsRoundTrip ==
    { [BaseDoc EXCEPT !.headerType = ht,
                      !.pointData = <<BinaryEl("Float32", "r", tx)>>] :
        ht \in {"UInt32", "UInt64"},
        tx \in { EncodeFloat32(vs, 4) : vs \in FloatSeqs }
               \cup { EncodeFloat32(vs, 8) : vs \in FloatSeqs }
               \cup ShortBlocks(4) \cup ShortBlocks(8) }

\* an appended block whose first eight bytes are the array's byte length and
\* the word 1: a length of n + 2^32 under an 8-byte header, of n under a
\* 4-byte header (the word 1 is then the payload's first four bytes)
HighWordBlock(r) ==
    LET bytes == BytesOf(r.ty, r.vals)
    IN U32LE(Len(bytes)) \o <<1, 0, 0, 0>> \o bytes \o <<0, 0>>

\* documents with one array appended at offset 0 of such a block
DocsHighWord ==
    { WithArray([BaseDoc EXCEPT
                    !.headerType = ht,
                    !.appended = [present |-> TRUE, encoding |-> enc,
                                  text |-> IF enc = "base64"
                                           THEN <<B64Marker>> \o Btoa(HighWordBlock(r))
                                           ELSE <<>>],
                    !.buffer = IF enc = "raw" THEN RawFile(HighWordBlock(r)) ELSE <<>>],
                r, AppendedEl(r.ty, r.name, TRUE, 0)) :
        ht \in {"UInt32", "UInt64"}, r \in ArrayRoles, enc \in {"raw", "base64"} }

\* documents whose NumberOfPoints and Points array disagree, or agree
DocsPointCounts ==
    { [BaseDoc EXCEPT !.numberOfPoints = n,
                      !.pointsEl = AsciiEl("Float32", "Points", 3, [j \in 1..k |-> j % 2])] :
        n \in {0, 2, 4, 5, NaN}, k \in {6, 12} }

XmlDocs ==
    DocsStructure \cup DocsCells \cup DocsInline \cup DocsAppended \cup DocsFields
        \cup DocsRoundTrip \cup DocsPointCounts \cup DocsHighWord

InitXml ==
    /\ pc = "xml_root"
    /\ doc \in XmlDocs
    /\ headerSize = 0
    /\ appendedDataMap = NoAppended
    /\ numberOfPoints = 0
    /\ numberOfCells = 0
    /\ pointsArray = Null
    /\ connectivity = Null
    /\ offsets = Null
    /\ types = Null
    /\ currentOffset = 0
    /\ da = 0
    /\ LegacyIdle
    /\ OutIdle
    /\ TriIdle

SpecXml == InitXml /\ [][NextXml]_vars

\* a decode call of either decoder
Init == InitLegacy \/ InitXml

Next == NextLegacy \/ NextXml

Spec == Init /\ [][Next]_vars

----------------------------------------------------------------------------
(* A call of triangulateCell on its own.                                   *)

\* cell index lists: entry i is p + s*i, so that the entries of a list with
\* s > 0 are pairwise different and a misplaced entry shows
IndexLists ==
    { [j \in 1..n |-> p + s * (j - 1)] : n \in 0..MaxArity, p \in 0..1, s \in 0..MaxStride }

\* index buffers the call may find: empty, or holding earlier triangles
IndexBuffers == { <<>>, <<7, 8, 9>>, <<0, 1, 2, 0, 2, 3>> }

InitTri ==
    /\ pc = "call"
    /\ type \in 0..MaxType
    /\ cellIndices \in IndexLists
    /\ indices \in IndexBuffers
    /\ trianglesAdded = 0
    /\ before = [indices |-> indices, cellIndices |-> cellIndices]
    /\ LegacyIdle
    /\ XmlIdle
    /\ OutIdle

r_thrown(t, c, ind) == triangulateCell(t, c, ind).thrown

CallTriangulate ==
    /\ pc = "call"
    /\ LET r == triangulateCell(type, cellIndices, indices)
       IN /\ indices' = r.indices
          /\ cellIndices' = r.cellIndices
          /\ trianglesAdded' = r.ret
          /\ pc' = IF r.thrown THEN "threw" ELSE "returned"
    /\ error' = IF r_thrown(type, cellIndices, indices) THEN "Error" ELSE error
    /\ UNCHANGED <<type, before, legVars, xmlVars, ci, pointDataFields, cellDataFields,
                   cellIdMap, mesh>>

NextTri == CallTriangulate

SpecTri == InitTri /\ [][NextTri]_vars

----------------------------------------------------------------------------
(* The triangulation table of the specification (section 4.1), written    *)
(* from the table and not from the code: triples of 0-based positions.     *)

TableTypes == {5, 7, 9, 10, 12, 13, 14}

MinArity(t) ==
    CASE t = 5 -> 3 [] t = 7 -> 3 [] t = 9 -> 4 [] t = 10 -> 4
      [] t = 12 -> 8 [] t = 13 -> 6 [] t = 14 -> 5 [] OTHER -> 0

\* a quad face {a,b,c,d} split along its 0-2 diagonal
QuadSplit(f) == << <<f[1], f[2], f[3]>>, <<f[1], f[3], f[4]>> >>

TableTriples(t, n) ==
    CASE t = 5  -> << <<0, 1, 2>> >>
      [] t = 7  -> [k \in 1..(n - 2) |-> <<0, k, k + 1>>]
      [] t = 9  -> << <<0, 1, 2>>, <<0, 2, 3>> >>
      [] t = 10 -> << <<0, 1, 2>>, <<0, 2, 3>>, <<0, 3, 1>>, <<1, 3, 2>> >>
      [] t = 12 -> QuadSplit(<<0, 1, 5, 4>>) \o QuadSplit(<<1, 2, 6, 5>>)
                   \o QuadSplit(<<2, 3, 7, 6>>) \o QuadSplit(<<3, 0, 4, 7>>)
                   \o QuadSplit(<<0, 3, 2, 1>>) \o QuadSplit(<<4, 5, 6, 7>>)
      [] t = 13 -> << <<0, 1, 2>>, <<3, 5, 4>> >>
                   \o QuadSplit(<<0, 1, 4, 3>>) \o QuadSplit(<<1, 2, 5, 4>>)
                   \o QuadSplit(<<2, 0, 3, 5>>)
      [] t = 14 -> << <<0, 1, 2>>, <<0, 2, 3>>, <<0, 1, 4>>, <<1, 2, 4>>,
                      <<2, 3, 4>>, <<3, 0, 4>> >>
      [] OTHER  -> <<>>

TableCount(t, n) ==
    CASE t = 5 -> 1 [] t = 7 -> n - 2 [] t = 9 -> 2 [] t = 10 -> 4
      [] t = 12 -> 12 [] t = 13 -> 8 [] t = 14 -> 6 [] OTHER -> 0

\* the table's triples with each position replaced by the cell's index there
TableIndices(t, c) ==
    LET tr == TableTriples(t, Len(c))
    IN Flatten([j \in 1..Len(tr) |-> [m \in 1..3 |-> c[tr[j][m] + 1]]])

\* the cell is one the table covers
InTable(t, c) == t \in TableTypes /\ Len(c) >= MinArity(t)

----------------------------------------------------------------------------
(* Claims about triangulateCell, checked under SpecTri.                    *)

\* C2: for every type code of the table and every cell index list of at
\* least the type's minimum arity, triangulateCell appends exactly the
\* table's triples in the table's order (quad faces split (a,b,c),(a,c,d)),
\* and returns the table's count: 1, n-2, 2, 4, 12, 8, 6.
C2_TableTriangulation ==
    (pc = "returned" /\ InTable(type, before.cellIndices)) =>
        /\ indices = before.indices \o TableIndices(type, before.cellIndices)
        /\ trianglesAdded = TableCount(type, Len(before.cellIndices))

\* a hexahedron over eight different points, after earlier triangles
C2_Witness ==
    /\ pc = "returned"
    /\ type = 12
    /\ Len(before.cellIndices) = 8
    /\ before.cellIndices[1] # before.cellIndices[2]
    /\ before.indices # <<>>
    /\ trianglesAdded = 12

\* C3: a cell whose type code is not in the table, or whose index list is
\* shorter than its type's minimum arity, makes triangulateCell return 0,
\* leave the index buffer unchanged and raise nothing.
C3_SkippedCell ==
    (pc # "call" /\ ~InTable(type, before.cellIndices)) =>
        /\ pc = "returned"
        /\ trianglesAdded = 0
        /\ indices = before.indices

\* a hexahedron type with seven points, called on a non-empty buffer
C3_Witness ==
    /\ pc = "returned"
    /\ type = 12
    /\ Len(before.cellIndices) = 7
    /\ before.indices # <<>>

\* C4: triangulateCell leaves the cell index list as it was, keeps the
\* buffer's earlier contents as a prefix, and returns
\* (new length - old length) / 3.
C4_FrameOfTriangulate ==
    pc = "returned" =>
        /\ cellIndices = before.cellIndices
        /\ IsPrefix(before.indices, indices)
        /\ 3 * trianglesAdded = Len(indices) - Len(before.indices)

\* a call that appended triangles to a non-empty buffer
C4_Witness ==
    /\ pc = "returned"
    /\ before.indices # <<>>
    /\ Len(indices) > Len(before.indices)
    /\ cellIndices # <<>>

----------------------------------------------------------------------------
(* Claims about the decoders, checked under Spec.                          *)

IsXml == doc # NoDoc
IsLegacy == doc = NoDoc /\ pc \notin {"call", "returned"}

\* the elements of a sequence
Range(f) == { f[j] : j \in 1..Len(f) }

\* C1: after any decode that returns a mesh, by either decoder, the
\* cell-ID map has one entry per emitted triangle and the index buffer's
\* length is a multiple of 3.
C1_CellIdPerTriangle ==
    /\ 3 * Len(cellIdMap) = Len(indices)
    /\ pc = "done" =>
          /\ 3 * Len(mesh.cellIdMap) = Len(mesh.index)
          /\ Len(mesh.index) % 3 = 0

\* a returned mesh with triangles, from a walk that also met a cell that
\* gave none
C1_Witness ==
    /\ pc = "done"
    /\ Len(mesh.cellIdMap) >= 2
    /\ ci >= 2
    /\ \E k \in 0..(ci - 1) : k \notin Range(mesh.cellIdMap)

\* The data lines of the section that keyword want opens, as the format
\* lays a file out: a section runs from its keyword line to the next
\* section keyword.
SectionKeywords == {"points", "cells", "polygons", "lines", "triangle_strips",
                    "cell_types", "point_data", "cell_data"}

RECURSIVE SectionTokens(_, _, _)
SectionTokens(ls, cur, want) ==
    IF ls = <<>> THEN <<>>
    ELSE LET l == Head(ls)
         IN IF l.kw \in SectionKeywords THEN SectionTokens(Tail(ls), l.kw, want)
            ELSE IF l.kw = "data" /\ cur = want
            THEN SelectSeq(l.vals, LAMBDA x : x # NaN) \o SectionTokens(Tail(ls), cur, want)
            ELSE SectionTokens(Tail(ls), cur, want)

\* the arity-prefixed groups of a token sequence, without their prefixes;
\* <<-1>> marks a sequence that is not made of whole groups
RECURSIVE SplitGroups(_)
SplitGroups(toks) ==
    IF toks = <<>> THEN <<>>
    ELSE IF Head(toks) < 0 \/ Head(toks) + 1 > Len(toks) THEN << <<-1>> >>
    ELSE <<SubSeq(toks, 2, Head(toks) + 1)>>
         \o SplitGroups(SubSeq(toks, Head(toks) + 2, Len(toks)))

WellFormedGroups(gs) == \A j \in 1..Len(gs) : gs[j] # <<-1>>

\* the declared count of the file's CELLS line (NaN when there is none)
RECURSIVE DeclaredCells(_)
DeclaredCells(ls) ==
    IF ls = <<>> THEN NaN
    ELSE IF Head(ls).kw = "cells" THEN Head(ls).n
    ELSE DeclaredCells(Tail(ls))

\* the file is an unstructured grid of n cells: a CELLS n section of n
\* well-formed groups, a CELL_TYPES section of n codes, no poly-data section
GridFile(ls, n) ==
    /\ DeclaredCells(ls) = n
    /\ WellFormedGroups(SplitGroups(SectionTokens(ls, "", "cells")))
    /\ Len(SplitGroups(SectionTokens(ls, "", "cells"))) = n
    /\ Len(SectionTokens(ls, "", "cell_types")) = n
    /\ \A h \in {"polygons", "lines", "triangle_strips"} : SectionTokens(ls, "", h) = <<>>

\* the triangles of cells j..n of the file, and their cell-ID entries
RECURSIVE CellTriangles(_, _, _)
CellTriangles(tys, gs, j) ==
    IF j > Len(gs) THEN <<>>
    ELSE TriangulatePushes(tys[j], gs[j], <<>>) \o CellTriangles(tys, gs, j + 1)

RECURSIVE CellIds(_, _, _)
CellIds(tys, gs, j) ==
    IF j > Len(gs) THEN <<>>
    ELSE Copies(Len(TriangulatePushes(tys[j], gs[j], <<>>)) \div 3, j - 1)
         \o CellIds(tys, gs, j + 1)

MeshPointCount == Len(mesh.position) \div 3

\* the number of cells of the decoded file: the cells the walk could visit
MeshCellCount == IF IsXml THEN XmlSafeNumCells ELSE LegacySafeNumCells

\* C6 (as claimed): every scalar field of a returned mesh has exactly one
\* value per point (pointData) or per cell (cellData).
C6_OneValuePerPointOrCell ==
    pc = "done" =>
        /\ \A f \in Range(mesh.pointData) : Len(f.data) = MeshPointCount
        /\ \A f \in Range(mesh.cellData) : Len(f.data) = MeshCellCount

\* v lies between min and max (a comparison with NaN is false)
JsLe(a, b) == IsNum(a) /\ IsNum(b) /\ a <= b

\* C7 (as claimed): for every emitted scalar field, min is the smallest and
\* max the largest value of the field's data, and both occur in it.
C7_MinMaxAreExtrema ==
    pc = "done" =>
        \A f \in Range(mesh.pointData) \cup Range(mesh.cellData) :
            /\ \A v \in Range(f.data) : JsLe(f.min, v) /\ JsLe(v, f.max)
            /\ f.min \in Range(f.data)
            /\ f.max \in Range(f.data)

\* C8 (as claimed): no decode emits a scalar field whose data is empty.
C8_NoEmptyField ==
    \A f \in Range(pointDataFields) \cup Range(cellDataFields) \cup Range(mesh.pointData)
             \cup Range(mesh.cellData) :
        Len(f.data) >= 1

\* the failures parse() raises for an element that is missing
StructuralErrors ==
    { "Invalid VTU file: Missing VTKFile tag",
      "Invalid VTU file: Missing UnstructuredGrid tag",
      "Invalid VTU file: Missing Piece tag",
      "Missing Points DataArray",
      "Missing Cells",
      "Incomplete Cell data (connectivity, offsets, or types missing)" }

\* C9 (as claimed): in the XML decoder a decode failure of a single data
\* array never aborts the decode: the call ends in a failure only when an
\* element is missing.
C9_ArrayFailureNeverAborts ==
    (IsXml /\ pc = "threw") => error \in StructuralErrors

\* an inline binary array whose base64 text atob rejects
MalformedBase64(el) == el.format = "binary" /\ Atob(el.text).thrown

\* the fields a data group gives when its malformed arrays are left out
RECURSIVE FieldsWithout(_, _, _, _)
FieldsWithout(els, fields, appendedMap, hSize) ==
    IF els = <<>> THEN fields
    ELSE FieldsWithout(Tail(els),
             IF MalformedBase64(Head(els)) THEN fields
             ELSE FieldOfArray(fields, Head(els), appendedMap, hSize).fields,
             appendedMap, hSize)

\* the triangles and cell IDs of a document's Cells arrays alone
RECURSIVE DocWalk(_, _, _, _, _, _)
DocWalk(conn, offs, tys, n, i, acc) ==
    IF ~JsLt(i, MathMin(<<n, Len(offs), Len(tys)>>)) THEN acc
    ELSE LET slice == SliceConnectivity(conn, IF i = 0 THEN 0 ELSE offs[i], offs[i + 1], <<>>)
             out   == TriangulatePushes(tys[i + 1], slice, acc.indices)
         IN DocWalk(conn, offs, tys, n, i + 1,
                    [indices |-> out,
                     cellIdMap |-> acc.cellIdMap
                                   \o Copies((Len(out) - Len(acc.indices)) \div 3, i)])

DocGeometry(d, hSize) ==
    LET c == parseAscii(d.connectivityEl)
        o == parseAscii(d.offsetsEl)
        t == parseAscii(d.typesEl)
    IN DocWalk(c.vals, o.vals, t.vals, d.numberOfCells, 0,
               [indices |-> <<>>, cellIdMap |-> <<>>])

\* the document has well-formed (ASCII) points and cells and exactly one
\* inline binary PointData array with malformed base64
OneMalformedPointArray(d) ==
    /\ d.hasRoot /\ d.hasGrid /\ d.hasPiece /\ d.hasPoints /\ d.hasCells
    /\ d.hasConnectivity /\ d.hasOffsets /\ d.hasTypes
    /\ \A el \in {d.pointsEl, d.connectivityEl, d.offsetsEl, d.typesEl} :
          el.format = "ascii" /\ el.text # <<>>
    /\ Cardinality({ j \in 1..Len(d.pointData) : MalformedBase64(d.pointData[j]) }) = 1

\* C10: in the XML decoder, when one inline binary PointData array has
\* malformed base64 and the points and cells are well-formed, the decode
\* returns a mesh with the point buffer, index buffer and cell-ID map of
\* the document without that array; the array's field is absent and every
\* other PointData and CellData field is present in declaration order.
C10_MalformedFieldAlone ==
    (IsXml /\ OneMalformedPointArray(doc) /\ pc \in {"done", "threw"}) =>
        /\ pc = "done"
        /\ mesh.position = ToFloat32Array(parseAscii(doc.pointsEl).vals)
        /\ mesh.index = DocGeometry(doc, headerSize).indices
        /\ mesh.cellIdMap = DocGeometry(doc, headerSize).cellIdMap
        /\ mesh.pointData = FieldsWithout(doc.pointData, <<>>, appendedDataMap, headerSize)
        /\ mesh.cellData = FieldsWithout(doc.cellData, <<>>, appendedDataMap, headerSize)
        /\ \A f \in Range(mesh.pointData) :
              \E j \in 1..Len(doc.pointData) :
                  doc.pointData[j].name = f.name /\ ~MalformedBase64(doc.pointData[j])

\* a mesh returned for a document whose PointData holds a well-formed array
\* after a malformed one, and whose CellData holds a field
C10_Witness ==
    /\ IsXml
    /\ pc = "done"
    /\ OneMalformedPointArray(doc)
    /\ Len(doc.pointData) = 2
    /\ MalformedBase64(doc.pointData[1])
    /\ Len(mesh.pointData) = 1
    /\ Len(mesh.cellData) = 1
    /\ Len(mesh.index) > 0

\* the document lacks an element the decoder requires
LacksElement(d) ==
    \/ ~d.hasRoot \/ ~d.hasGrid \/ ~d.hasPiece \/ ~d.hasPoints
    \/ ~d.hasCells \/ ~d.hasConnectivity \/ ~d.hasOffsets \/ ~d.hasTypes

\* C11: the XML decoder aborts with a failure and returns no mesh whenever
\* the document lacks the VTKFile, UnstructuredGrid or Piece element, the
\* Points array, or any of the connectivity, offsets or types arrays of
\* Cells; when all of them are present no structural failure is raised.
C11_StructuralFailures ==
    IsXml =>
        /\ LacksElement(doc) => (pc # "done" /\ mesh = NoMesh)
        /\ (LacksElement(doc) /\ pc \notin {"xml_root", "xml_appended", "xml_piece",
                                            "xml_points", "xml_cells"}) =>
               (pc = "threw" /\ error \in StructuralErrors)
        /\ ~LacksElement(doc) => error \notin StructuralErrors

\* a decode that failed on a document with its root, grid, piece and points
\* but without the offsets array
C11_Witness ==
    /\ IsXml
    /\ pc = "threw"
    /\ doc.hasRoot /\ doc.hasGrid /\ doc.hasPiece /\ doc.hasPoints /\ doc.hasCells
    /\ ~doc.hasOffsets
    /\ error = "Incomplete Cell data (connectivity, offsets, or types missing)"
    /\ mesh = NoMesh

\* positions (0-based) of the file's bytes where the literal <AppendedData
\* starts, and the marker: the first '_' at or after the first of them
TagPositions(buf) ==
    { q \in 0..(Len(buf) - Len(AppendedTag)) :
        SubSeq(buf, q + 1, q + Len(AppendedTag)) = AppendedTag }

MarkerPositions(buf) ==
    IF TagPositions(buf) = {} THEN {}
    ELSE LET tag == CHOOSE q \in TagPositions(buf) : \A q2 \in TagPositions(buf) : q <= q2
         IN { q \in tag..(Len(buf) - 1) : buf[q + 1] = Underscore }

MarkerPosition(buf) ==
    CHOOSE q \in MarkerPositions(buf) : \A q2 \in MarkerPositions(buf) : q <= q2

\* the value of a 4-byte little-endian header at 0-based position q
LittleEndian32(buf, q) ==
    buf[q + 1] + 256 * buf[q + 2] + 65536 * buf[q + 3] + 16777216 * buf[q + 4]

\* el is an appended array of a file with a raw block and 4-byte headers
\* whose header position m + 1 + o is a position of the file
RawArray(d, el) ==
    /\ d.appended.present /\ d.appended.encoding = "raw" /\ d.isBuffer
    /\ d.headerType # "UInt64"
    /\ MarkerPositions(d.buffer) # {}
    /\ el.format = "appended" /\ el.hasOffset /\ el.offset # NaN
    /\ MarkerPosition(d.buffer) + 1 + el.offset >= 0

\* what the claim says the array decodes: no data, or the L bytes after the
\* header
RawPayload(d, el) ==
    LET at == MarkerPosition(d.buffer) + 1 + el.offset
    IN IF at + 4 > Len(d.buffer) THEN [null |-> TRUE, bytes |-> <<>>]
       ELSE IF at + 4 + LittleEndian32(d.buffer, at) > Len(d.buffer)
       THEN [null |-> TRUE, bytes |-> <<>>]
       ELSE [null |-> FALSE,
             bytes |-> SubSeq(d.buffer, at + 5, at + 4 + LittleEndian32(d.buffer, at))]

\* the decoded array arr holds exactly the payload of el
HoldsPayload(d, el, arr) ==
    /\ arr.null = RawPayload(d, el).null
    /\ ~arr.null => BytesOf(el.type, arr.vals) = RawPayload(d, el).bytes

AfterCells == {"xml_walk", "xml_pointdata", "xml_celldata", "done"}

\* C12: with a raw appended block whose marker is at byte m of the file (the
\* first '_' after the literal <AppendedData), an appended array of offset o
\* whose 4-byte little-endian header at m+1+o has value L decodes exactly
\* the L bytes at [m+1+o+4, m+1+o+4+L) of the file; if the header or that
\* range passes the end of the file the array yields no data.
C12_RawAppendedSegment ==
    IsXml =>
        /\ (pc \in AfterCells \cup {"xml_cells"} /\ RawArray(doc, doc.pointsEl)) =>
               HoldsPayload(doc, doc.pointsEl, pointsArray)
        /\ (pc = "threw" /\ error = "Failed to parse Points data (empty or invalid)"
              /\ RawArray(doc, doc.pointsEl)) =>
               RawPayload(doc, doc.pointsEl).null
        /\ (pc \in AfterCells /\ RawArray(doc, doc.connectivityEl)) =>
               HoldsPayload(doc, doc.connectivityEl, connectivity)
        /\ (pc \in AfterCells /\ RawArray(doc, doc.offsetsEl)) =>
               HoldsPayload(doc, doc.offsetsEl, offsets)
        /\ (pc \in AfterCells /\ RawArray(doc, doc.typesEl)) =>
               HoldsPayload(doc, doc.typesEl, types)
        /\ (pc = "done" /\ Len(doc.pointData) = 1 /\ RawArray(doc, doc.pointData[1])) =>
               IF RawPayload(doc, doc.pointData[1]).null
               THEN mesh.pointData = <<>>
               ELSE /\ Len(mesh.pointData) = 1
                    /\ BytesOf(doc.pointData[1].type, mesh.pointData[1].data)
                           = RawPayload(doc, doc.pointData[1]).bytes

\* a mesh whose connectivity came from the raw block at offset 3, the marker
\* 16 bytes into the file
C12_Witness ==
    /\ IsXml
    /\ pc = "done"
    /\ RawArray(doc, doc.connectivityEl)
    /\ doc.connectivityEl.offset = 3
    /\ MarkerPosition(doc.buffer) = 16
    /\ connectivity.vals = <<0, 1, 2, 0, 1, 2, 3>>
    /\ Len(mesh.index) = 9

\* the document's PointData is one inline binary Float32 array
OneBinaryFloat32(d) ==
    /\ ~LacksElement(d)
    /\ Len(d.pointData) = 1
    /\ d.pointData[1].format = "binary"
    /\ d.pointData[1].type = "Float32"
    /\ d.pointData[1].comps = 1

\* C13: round trip for inline binary arrays: a headerSize-byte length
\* header followed by the little-endian bytes of a sequence of Float32
\* values, encoded as base64, decodes as a binary Float32 array to exactly
\* that sequence; a block of at most headerSize bytes yields no data.
C13_InlineBinaryRoundTrip ==
    (IsXml /\ pc = "done" /\ OneBinaryFloat32(doc)) =>
        /\ \A vs \in FloatSeqs :
              doc.pointData[1].text = EncodeFloat32(vs, headerSize) =>
                  /\ Len(mesh.pointData) = 1
                  /\ mesh.pointData[1].data = vs
        /\ doc.pointData[1].text \in ShortBlocks(headerSize) => mesh.pointData = <<>>

\* the decoded field of a document that encodes -1.5 and then NaN behind
\* an 8-byte header
C13_Witness ==
    /\ IsXml
    /\ pc = "done"
    /\ OneBinaryFloat32(doc)
    /\ headerSize = 8
    /\ doc.pointData[1].text = EncodeFloat32(<<-1069547520, NaN>>, 8)
    /\ Len(mesh.pointData) = 1
    /\ mesh.pointData[1].data = <<-1069547520, NaN>>

\* C14 (as claimed): every loop of a decode finishes.  Each loop is
\* deterministic in its position over a fixed sequence, so it finishes
\* exactly when no position repeats: the line loop within one turn per
\* line, the cell walks within one turn per type code, and the
\* type-inference loop within one turn per value of the shared cell buffer
\* (and one more, for a position before the buffer).
C14_LoopsFinish ==
    /\ li <= Len(lines)
    /\ pc = "infer" => Len(cellTypes) <= Len(cellDataRaw) + 1
    /\ pc = "walk" => ci <= Len(cellTypes)
    /\ pc = "xml_walk" => ci <= Len(types.vals)

\* the smaller of two numbers
Smaller(a, b) == IF a <= b THEN a ELSE b

\* the cells the legacy walk may visit: none when the count is no number
LegacyCellBound == IF numCells = NaN THEN 0 ELSE Smaller(numCells, Len(cellTypes))

\* the walk the claim describes, from cell i at 0-based position q of raw:
\* it ends at the bound or where no arity prefix is left, and a group takes
\* what is left of raw when raw is too short for it
RECURSIVE WalkUntilShort(_, _, _, _, _, _)
WalkUntilShort(raw, tys, n, i, q, acc) ==
    IF i >= n \/ q >= Len(raw) THEN acc
    ELSE LET last  == Smaller(q + 1 + raw[q + 1], Len(raw))
             group == SubSeq(raw, q + 2, last)
             tris  == TriangulatePushes(tys[i + 1], group, <<>>)
         IN WalkUntilShort(raw, tys, n, i + 1, IF last > q THEN last ELSE q + 1,
                [walked    |-> i + 1,
                 indices   |-> acc.indices \o tris,
                 cellIdMap |-> acc.cellIdMap \o Copies(Len(tris) \div 3, i)])

LegacyWalked ==
    WalkUntilShort(cellDataRaw, cellTypes, LegacyCellBound, 0, 0,
                   [walked |-> 0, indices |-> <<>>, cellIdMap |-> <<>>])

\* C15: in the legacy cell walk, when the shared raw cell buffer holds fewer
\* values than the declared cells require, the walk stops at the first cell
\* whose arity prefix cannot be read, never reads past the end of the
\* buffer, raises no error, and keeps the triangles and cell-ID entries of
\* the cells walked before.
C15_WalkStopsEarly ==
    IsLegacy =>
        /\ cellDataIndex <= Len(cellDataRaw)
        /\ Undefined \notin Range(cellIndices)
        /\ pc = "threw" => error # "Error"
        /\ pc \in {"build", "done"} =>
              /\ ci = LegacyWalked.walked
              /\ indices = LegacyWalked.indices
              /\ cellIdMap = LegacyWalked.cellIdMap
        /\ pc = "done" =>
              /\ mesh.index = LegacyWalked.indices
              /\ mesh.cellIdMap = LegacyWalked.cellIdMap

\* a mesh of a file that declares two cells with two type codes and holds
\* one triangle group: the walk stopped before the second cell
C15_Witness ==
    /\ IsLegacy
    /\ pc = "done"
    /\ numCells = 2
    /\ cellTypes = <<5, 5>>
    /\ cellDataRaw = <<3, 0, 1, 2>>
    /\ ci = 1
    /\ cellDataIndex = Len(cellDataRaw)
    /\ mesh.index = <<0, 1, 2>>
    /\ mesh.cellIdMap = <<0>>

\* the three cell arrays decoded, so that the walk takes place
CellArraysDecoded == ~connectivity.null /\ ~offsets.null /\ ~types.null

\* min(NumberOfCells, len(offsets), len(types)); no cell when NumberOfCells
\* is no number
XmlCellBound ==
    IF numberOfCells = NaN THEN 0
    ELSE Smaller(numberOfCells, Smaller(Len(offsets.vals), Len(types.vals)))

\* C16: in the XML decoder the number of cells walked is exactly
\* min(NumberOfCells, len(offsets), len(types)); no entry of offsets or
\* types at or beyond that bound is read, and every cell-ID map entry is
\* less than that bound.
C16_WalkClamped ==
    (IsXml /\ pc \in AfterCells /\ CellArraysDecoded) =>
        /\ ci <= XmlCellBound
        /\ pc # "xml_walk" => ci = XmlCellBound
        /\ ci >= 1 => (type = types.vals[ci] /\ currentOffset = offsets.vals[ci])
        /\ \A e \in Range(cellIdMap) \cup Range(mesh.cellIdMap) : e < XmlCellBound

\* a mesh of a document that declares two cells and holds two type codes
\* but one offset: one cell walked
C16_Witness ==
    /\ IsXml
    /\ pc = "done"
    /\ CellArraysDecoded
    /\ numberOfCells = 2
    /\ Len(offsets.vals) = 1
    /\ Len(types.vals) = 2
    /\ ci = 1
    /\ mesh.cellIdMap = <<0>>

\* connectivity[a .. b), restricted to the positions connectivity has
SliceExisting(conn, a, b) ==
    SubSeq(conn, (IF a < 0 THEN 0 ELSE a) + 1, Smaller(b, Len(conn)))

\* C17 (as claimed): in the XML cell walk the index list handed to the
\* triangulation engine for cell i is connectivity[runningStart ..
\* offsets[i]) restricted to the positions that exist in connectivity,
\* runningStart being 0 for i = 0 and offsets[i-1] otherwise, for any
\* offsets sequence.
C17_SliceOfConnectivity ==
    (IsXml /\ pc \in AfterCells /\ CellArraysDecoded /\ ci >= 1) =>
        before.cellIndices =
            SliceExisting(connectivity.vals,
                          IF ci = 1 THEN 0 ELSE offsets.vals[ci - 1],
                          offsets.vals[ci])

\* the arity prefixes of the groups of a cell buffer, a last group cut short
\* included; <<-1>> ends the list at a prefix that is negative
RECURSIVE GroupArities(_)
GroupArities(raw) ==
    IF raw = <<>> THEN <<>>
    ELSE IF Head(raw) < 0 THEN <<-1>>
    ELSE <<Head(raw)>> \o GroupArities(SubSeq(raw, Head(raw) + 2, Len(raw)))

\* the inference table of the specification
ArityType(a) ==
    CASE a = 1 -> 1 [] a = 2 -> 3 [] a = 3 -> 5 [] a = 4 -> 9 [] a >= 5 -> 7

\* the count of the file's CELLS line, 0 when it has none
DeclaredCount(ls) ==
    IF \E j \in 1..Len(ls) : ls[j].kw = "cells" THEN DeclaredCells(ls) ELSE 0

LinesOnlyFile(ls) ==
    LET gs == SplitGroups(SectionTokens(ls, "", "lines"))
    IN /\ gs # <<>>
       /\ \A j \in 1..Len(gs) : gs[j] # <<-1>> /\ Len(gs[j]) = 2
       /\ \A h \in {"cells", "polygons", "triangle_strips", "cell_types"} :
             SectionTokens(ls, "", h) = <<>>

\* C19: for a legacy poly-data file with a LINES section of 2-point cells
\* and no CELL_TYPES, POLYGONS or TRIANGLE_STRIPS, every cell is inferred
\* as type 3, the triangulation engine yields zero triangles for each, the
\* index buffer and the cell-ID map are empty, and the decode returns a
\* mesh without failing.
C19_LinesOnly ==
    (IsLegacy /\ LinesOnlyFile(lines)) =>
        /\ pc # "threw"
        /\ indices = <<>> /\ cellIdMap = <<>> /\ trianglesAdded = 0
        /\ pc \in {"walk", "build", "done"} =>
              /\ Len(cellTypes) = Len(SplitGroups(SectionTokens(lines, "", "lines")))
              /\ \A j \in 1..Len(cellTypes) : cellTypes[j] = 3
        /\ pc \in {"build", "done"} => ci = Len(cellTypes)
        /\ pc = "done" =>
              /\ mesh # NoMesh
              /\ ~mesh.hasIndex
              /\ mesh.index = <<>>
              /\ mesh.cellIdMap = <<>>

\* a mesh of a file with two lines: both cells walked, nothing indexed
C19_Witness ==
    /\ IsLegacy
    /\ pc = "done"
    /\ LinesOnlyFile(lines)
    /\ cellTypes = <<3, 3>>
    /\ ci = 2
    /\ ~mesh.hasIndex

\* C20: in both decoders the returned mesh carries an index buffer if and
\* only if at least one triangle was produced; when the walked cells give no
\* triangle no index buffer is attached, not even an empty one, and the mesh
\* still has the point buffer and an empty cell-ID map.
C20_IndexOnlyWithTriangles ==
    pc = "done" =>
        /\ mesh.hasIndex <=> Len(indices) >= 3
        /\ mesh.hasIndex <=> Len(mesh.cellIdMap) >= 1
        /\ mesh.hasIndex => (mesh.index = indices /\ mesh.index # <<>>)
        /\ ~mesh.hasIndex =>
              /\ mesh.index = <<>>
              /\ mesh.cellIdMap = <<>>
              /\ mesh.position = ToFloat32Array(IF IsXml THEN pointsArray.vals ELSE points)

\* a mesh of the XML decoder with twelve coordinates and two walked cells
\* that gave no triangle: no index buffer
C20_Witness ==
    /\ IsXml
    /\ pc = "done"
    /\ ci = 2
    /\ Len(mesh.position) = 12
    /\ ~mesh.hasIndex
    /\ mesh.cellIdMap = <<>>

\* the point count the file declares: NumberOfPoints, or the n of POINTS n
DeclaredPoints == IF IsXml THEN numberOfPoints ELSE numPoints

\* the numbers of the data lines of the last POINTS section of ls
LastPointsTokens(ls) ==
    LET at == { j \in 1..Len(ls) : ls[j].kw = "points" }
    IN IF at = {} THEN <<>>
       ELSE LET last == CHOOSE j \in at : \A k \in at : k <= j
            IN SectionTokens(SubSeq(ls, last, Len(ls)), "", "points")

\* the coordinate triples present in the file's points data
ActualPoints ==
    IF IsXml THEN Len(pointsArray.vals) \div 3
    ELSE Len(LastPointsTokens(lines)) \div 3

\* C21 (as claimed): when the declared point count disagrees with the number
\* of coordinate triples present, the decode does not fail and the returned
\* point buffer holds exactly min(declared, actual) points.
C21_PointCountClamped ==
    (pc = "done" /\ IsNum(DeclaredPoints)) =>
        Len(mesh.position) = 3 * Smaller(DeclaredPoints, ActualPoints)

\* C22 (as claimed): in every returned mesh every entry of the index buffer
\* is a valid point-buffer position, an integer i with 0 <= i < pointCount.
C22_IndicesInRange ==
    pc = "done" =>
        \A v \in Range(mesh.index) : IsNum(v) /\ 0 <= v /\ v < MeshPointCount

\* the line loop has gone past a POINTS line
PastPointsLine == \E j \in 1..li : lines[j].kw = "points"

\* a buffer of 3n entries holding the first 3n of toks in order, the rest
\* of it empty slots
PointsOf(n, toks) == [j \in 1..(3 * n) |-> IF j <= Len(toks) THEN toks[j] ELSE Hole]

\* C23: in the legacy decoder, after a POINTS n line (the last one the loop
\* met) the point buffer has exactly 3n entries in every later state and in
\* the returned mesh, whatever number of coordinate values follows: the
\* values are stored in file order from position 0 and the values beyond the
\* 3n-th are dropped.
C23_PointBufferLength ==
    (IsLegacy /\ PastPointsLine) =>
        LET toks == LastPointsTokens(SubSeq(lines, 1, li))
        IN /\ Len(points) = 3 * numPoints
           /\ points = PointsOf(numPoints, toks)
           /\ pointCount = Smaller(Len(toks), 3 * numPoints)
           /\ pc = "done" =>
                 /\ Len(mesh.position) = 3 * numPoints
                 /\ mesh.position = ToFloat32Array(PointsOf(numPoints, toks))

\* POINTS 1 followed by more than three coordinate values: a mesh of one point
C23_Witness ==
    /\ IsLegacy
    /\ pc = "done"
    /\ numPoints = 1
    /\ Len(LastPointsTokens(lines)) > 3
    /\ mesh.position = <<1, 2, 0>>

\* a is b with some entries left out
RECURSIVE IsSubsequence(_, _)
IsSubsequence(a, b) ==
    IF a = <<>> THEN TRUE
    ELSE IF b = <<>> THEN FALSE
    ELSE IF Head(a) = Head(b) THEN IsSubsequence(Tail(a), Tail(b))
    ELSE IsSubsequence(a, Tail(b))

\* the names of the SCALARS lines of a legacy file that stand in the group
\* want ("point_data" or "cell_data"), in file order
RECURSIVE DeclaredScalars(_, _, _)
DeclaredScalars(ls, cur, want) ==
    IF ls = <<>> THEN <<>>
    ELSE LET l == Head(ls)
         IN IF l.kw \in SectionKeywords THEN DeclaredScalars(Tail(ls), l.kw, want)
            ELSE IF l.kw = "scalars" /\ cur = want
            THEN <<l.nm>> \o DeclaredScalars(Tail(ls), cur, want)
            ELSE DeclaredScalars(Tail(ls), cur, want)

\* the names of the fields a group of the file declares, in file order
DeclaredNames(group) ==
    IF IsXml
    THEN LET els == IF group = "point_data" THEN doc.pointData ELSE doc.cellData
         IN [j \in 1..Len(els) |-> els[j].name]
    ELSE DeclaredScalars(lines, "", group)

NamesOf(fields) == [j \in 1..Len(fields) |-> fields[j].name]

\* C24: in both decoders the emitted pointData and cellData list the fields
\* in the order in which the file declares them: the emitted fields of a
\* group are the group's declared fields with some left out, so none is
\* emitted twice, none out of order and none in the other group.
C24_FieldsInDeclarationOrder ==
    /\ IsSubsequence(NamesOf(pointDataFields), DeclaredNames("point_data"))
    /\ IsSubsequence(NamesOf(cellDataFields), DeclaredNames("cell_data"))
    /\ pc = "done" =>
          /\ mesh.pointData = pointDataFields
          /\ mesh.cellData = cellDataFields

\* a document with two point-data arrays and one cell-data array, all emitted
C24_Witness ==
    /\ IsXml
    /\ pc = "done"
    /\ NamesOf(mesh.pointData) = <<"a", "b">>
    /\ NamesOf(mesh.cellData) = <<"g">>

\* the last field of a list
LastField(fields) == fields[Len(fields)]

\* C25 (as claimed): in the legacy decoder a SCALARS field is sealed and
\* emitted exactly when its accumulated value count equals targetCount x
\* components (the point count inside POINT_DATA, the cell count inside
\* CELL_DATA); it is never emitted with fewer values, and after sealing the
\* sub-state is NONE, so that later lines leave the emitted fields unchanged
\* until the next SCALARS line.
C25_SealedAtExactCount ==
    [][IsLegacy =>
          LET target == TargetCount(section, numPoints, numCells, cellTypes)
              want   == JsMul(target, currentScalar.components)
          IN /\ pointDataFields' # pointDataFields =>
                   /\ section = "POINT_DATA" /\ subSection = "SCALARS"
                   /\ pointDataFields' = Append(pointDataFields, LastField(pointDataFields'))
                   /\ Len(LastField(pointDataFields').data) = want
                   /\ subSection' = "NONE"
             /\ cellDataFields' # cellDataFields =>
                   /\ section = "CELL_DATA" /\ subSection = "SCALARS"
                   /\ cellDataFields' = Append(cellDataFields, LastField(cellDataFields'))
                   /\ Len(LastField(cellDataFields').data) = want
                   /\ subSection' = "NONE"
             /\ subSection = "NONE" =>
                   (pointDataFields' = pointDataFields /\ cellDataFields' = cellDataFields)
      ]_vars

\* a step of the legacy line loop
LineStep == IsLegacy /\ pc = "lines" /\ li < Len(lines)

\* SCALARS is active: a data line of an attribute section goes to the field
ActiveScalars ==
    section \in {"POINT_DATA", "CELL_DATA"} /\ subSection = "SCALARS" /\ ~currentScalar.null

\* what a data line leaves alone, by the section it is met in; in an
\* attribute section with an active SCALARS the field (with its emission
\* into the section's list when it is complete) is the accumulator
DataLineFrame ==
    /\ UNCHANGED <<section, numPoints, numCells>>
    /\ section = "POINTS" =>
          UNCHANGED <<cellDataRaw, cellTypes, subSection, currentScalar, pointDataFields,
                      cellDataFields>>
    /\ section \in CellSections =>
          UNCHANGED <<points, pointCount, cellTypes, subSection, currentScalar,
                      pointDataFields, cellDataFields>>
    /\ section = "CELL_TYPES" =>
          UNCHANGED <<points, pointCount, cellDataRaw, subSection, currentScalar,
                      pointDataFields, cellDataFields>>
    /\ ActiveScalars =>
          /\ UNCHANGED <<points, pointCount, cellDataRaw, cellTypes>>
          /\ section = "POINT_DATA" => UNCHANGED cellDataFields
          /\ section = "CELL_DATA" => UNCHANGED pointDataFields
    /\ (section = "NONE" \/ (section \in {"POINT_DATA", "CELL_DATA"} /\ ~ActiveScalars)) =>
          UNCHANGED <<points, pointCount, cellDataRaw, cellTypes, subSection, currentScalar,
                      pointDataFields, cellDataFields>>

\* what every keyword line leaves alone: the accumulators other than the
\* point buffer, and the state it does not declare
KeywordLineFrame ==
    /\ UNCHANGED <<cellDataRaw, cellTypes, pointDataFields, cellDataFields>>
    /\ Cur.kw # "scalars" => UNCHANGED currentScalar
    /\ Cur.kw # "points" => UNCHANGED numPoints
    /\ Cur.kw # "cells" => UNCHANGED numCells
    /\ Cur.kw \in {"dataset", "lookup_table"} => UNCHANGED <<section, subSection>>

\* C26 (as claimed): a keyword line changes only the section / sub-state
\* variables and the counters it declares, and a data line changes at most
\* the one accumulator of the current section, nothing in section NONE or
\* in an attribute section without an active SCALARS.
C26_LineFrame ==
    [][LineStep =>
          /\ Cur.kw \notin {"data", "blank"} =>
                (KeywordLineFrame /\ UNCHANGED <<points, pointCount>>)
          /\ Cur.kw = "data" => DataLineFrame
          /\ Cur.kw = "blank" =>
                UNCHANGED <<section, subSection, legAccum, currentScalar, pointDataFields,
                            cellDataFields>>
      ]_vars

\* C26 (amended): as claimed, except that a POINTS n line also replaces the
\* point buffer by a fresh one of 3n empty entries and resets its write
\* position (whatever the buffer held), and no other keyword line touches
\* the point buffer.
C26_LineFrameAmended ==
    [][LineStep =>
          /\ Cur.kw \notin {"data", "blank"} =>
                /\ KeywordLineFrame
                /\ Cur.kw # "points" => UNCHANGED <<points, pointCount>>
                /\ (Cur.kw = "points" /\ pc' = "lines") =>
                      (points' = Copies(3 * Cur.n, Hole) /\ pointCount' = 0)
          /\ Cur.kw = "data" => DataLineFrame
          /\ Cur.kw = "blank" =>
                UNCHANGED <<section, subSection, legAccum, currentScalar, pointDataFields,
                            cellDataFields>>
      ]_vars

\* the line loop has just routed a CELL_TYPES data line, after a POINTS
\* section and a CELLS section that stored their values
C26_Witness ==
    /\ IsLegacy
    /\ pc = "lines"
    /\ li >= 1
    /\ lines[li].kw = "data"
    /\ section = "CELL_TYPES"
    /\ cellTypes = <<5, 9>>
    /\ cellDataRaw = <<3, 0, 1, 2, 4, 0, 1, 2, 3>>
    /\ pointCount = 12

\* the numbers of the color tables of a file: the number on a LOOKUP_TABLE
\* line, and the numbers of the rows that follow such a line up to the next
\* keyword line
RECURSIVE ColorNumbers(_, _)
ColorNumbers(ls, inTable) ==
    IF ls = <<>> THEN {}
    ELSE LET l == Head(ls)
         IN IF l.kw = "lookup_table"
            THEN (IF IsNum(l.n) THEN {l.n} ELSE {}) \cup ColorNumbers(Tail(ls), IsNum(l.n))
            ELSE IF l.kw = "data"
            THEN (IF inTable THEN { v \in Range(l.vals) : IsNum(v) } ELSE {})
                    \cup ColorNumbers(Tail(ls), inTable)
            ELSE IF l.kw = "blank" THEN ColorNumbers(Tail(ls), inTable)
            ELSE ColorNumbers(Tail(ls), FALSE)

\* C27 (as claimed): in the legacy decoder no number taken from a
\* LOOKUP_TABLE line, or from the color-table rows that follow one, ever
\* appears in the data of an emitted scalar field, also when the SCALARS
\* block holds fewer values than the target count where the LOOKUP_TABLE
\* line is met.
C27_NoColorTableData ==
    IsLegacy =>
        \A f \in Range(pointDataFields) \cup Range(cellDataFields)
                 \cup Range(mesh.pointData) \cup Range(mesh.cellData) :
            Range(f.data) \cap ColorNumbers(lines, FALSE) = {}

\* the header size the claim states
ClaimedHeaderSize == IF doc.headerType = "UInt64" THEN 8 ELSE 4

\* the 0-based position of el's length header in the appended buffer
HeaderAt(el) ==
    (IF appendedDataMap.encoding = "raw" THEN appendedDataMap.offsetStart ELSE 0) + el.offset

\* el is an appended array whose whole length header lies in the buffer
HeaderInBuffer(el) ==
    /\ ~appendedDataMap.buffer.null
    /\ el.format = "appended" /\ el.hasOffset /\ el.offset # NaN
    /\ HeaderAt(el) >= 0
    /\ HeaderAt(el) + ClaimedHeaderSize <= Len(appendedDataMap.buffer.vals)

\* What the claim says el decodes.  The length low + high * 2^32 is kept as
\* its two words: with high >= 1 it passes the end of every buffer.
ClaimedPayload(el) ==
    LET buf  == appendedDataMap.buffer.vals
        at   == HeaderAt(el)
        low  == LittleEndian32(buf, at)
        high == IF ClaimedHeaderSize = 8 THEN LittleEndian32(buf, at + 4) ELSE 0
    IN IF high >= 1 \/ at + ClaimedHeaderSize + low > Len(buf)
       THEN [null |-> TRUE, bytes |-> <<>>]
       ELSE [null |-> FALSE,
             bytes |-> SubSeq(buf, at + ClaimedHeaderSize + 1, at + ClaimedHeaderSize + low)]

\* the decoded array arr is what the claim says el decodes
HoldsClaimed(el, arr) ==
    /\ arr.null = ClaimedPayload(el).null
    /\ ~arr.null => BytesOf(el.type, arr.vals) = ClaimedPayload(el).bytes

\* C28: in the XML decoder the appended length header is 8 bytes exactly
\* when the root's header_type is UInt64 and 4 bytes otherwise; in the 8-byte
\* case the payload length is low + high * 2^32 of the two little-endian
\* words of the header; a payload whose end (start + headerSize + length)
\* exceeds the buffer length is rejected as no data rather than read.
C28_AppendedHeader ==
    (IsXml /\ pc # "xml_root" /\ (pc = "threw" => error # "Invalid VTU file: Missing VTKFile tag")) =>
        /\ headerSize = ClaimedHeaderSize
        /\ (pc \in AfterCells \cup {"xml_cells"} /\ HeaderInBuffer(doc.pointsEl)) =>
               HoldsClaimed(doc.pointsEl, pointsArray)
        /\ (pc = "threw" /\ error = "Failed to parse Points data (empty or invalid)"
              /\ HeaderInBuffer(doc.pointsEl)) =>
               ClaimedPayload(doc.pointsEl).null
        /\ (pc \in AfterCells /\ HeaderInBuffer(doc.connectivityEl)) =>
               HoldsClaimed(doc.connectivityEl, connectivity)
        /\ (pc \in AfterCells /\ HeaderInBuffer(doc.offsetsEl)) =>
               HoldsClaimed(doc.offsetsEl, offsets)
        /\ (pc \in AfterCells /\ HeaderInBuffer(doc.typesEl)) =>
               HoldsClaimed(doc.typesEl, types)
        /\ (pc = "done" /\ Len(doc.pointData) = 1 /\ HeaderInBuffer(doc.pointData[1])) =>
               IF ClaimedPayload(doc.pointData[1]).null
               THEN mesh.pointData = <<>>
               ELSE /\ Len(mesh.pointData) = 1
                    /\ BytesOf(doc.pointData[1].type, mesh.pointData[1].data)
                           = ClaimedPayload(doc.pointData[1]).bytes

\* a mesh decoded with 8-byte headers whose connectivity header has the high
\* word 1 and a low word that would fit the buffer: no connectivity, no
\* triangles
C28_Witness ==
    /\ IsXml
    /\ pc = "done"
    /\ headerSize = 8
    /\ HeaderInBuffer(doc.connectivityEl)
    /\ LittleEndian32(appendedDataMap.buffer.vals, HeaderAt(doc.connectivityEl) + 4) = 1
    /\ HeaderAt(doc.connectivityEl) + 8
          + LittleEndian32(appendedDataMap.buffer.vals, HeaderAt(doc.connectivityEl))
          <= Len(appendedDataMap.buffer.vals)
    /\ connectivity.null
    /\ mesh.index = <<>>

\* C29 (as claimed): the legacy decoder has no fatal error path: for every
\* input text, keyword lines without their arguments or with non-numeric or
\* negative counts included, parse never throws.
C29_LegacyNeverThrows ==
    IsLegacy => (pc # "threw" /\ error = "")

\* the entries of a sequence never decrease
NonDecreasing(f) == \A j \in 1..Len(f) : \A k \in j..Len(f) : f[j] <= f[k]

\* The connectivity groups of the cells of the decoded file, in cell order,
\* when the file lays them out whole: the arity-prefixed groups of the raw
\* cell buffer; the slices between consecutive offsets that do not decrease.
\* <<-1>> marks a file that does not.
WalkGroups ==
    IF IsXml
    THEN IF /\ CellArraysDecoded
            /\ \A j \in 1..Len(offsets.vals) : IsNum(offsets.vals[j]) /\ offsets.vals[j] >= 0
            /\ NonDecreasing(offsets.vals)
         THEN [j \in 1..Len(offsets.vals) |->
                  SliceExisting(connectivity.vals,
                                IF j = 1 THEN 0 ELSE offsets.vals[j - 1],
                                offsets.vals[j])]
         ELSE << <<-1>> >>
    ELSE SplitGroups(cellDataRaw)

WalkTypes == IF IsXml THEN types.vals ELSE cellTypes

\* C30: in both decoders the cell-ID map is non-decreasing and each entry is
\* the 0-based position of its source cell among all walked cells: a cell
\* that contributes no triangle adds no entry but still consumes its own
\* index and its own connectivity group, so that the IDs and index groups of
\* all later cells are not shifted.
C30_CellIdsNotShifted ==
    /\ NonDecreasing(cellIdMap)
    /\ \A j \in 1..Len(cellIdMap) : 0 <= cellIdMap[j] /\ cellIdMap[j] < ci
    /\ (pc \in {"walk", "build", "xml_walk", "xml_pointdata", "xml_celldata", "done"}
          /\ WellFormedGroups(WalkGroups)) =>
           /\ ci <= Len(WalkGroups)
           /\ indices = CellTriangles(WalkTypes, SubSeq(WalkGroups, 1, ci), 1)
           /\ cellIdMap = CellIds(WalkTypes, SubSeq(WalkGroups, 1, ci), 1)
    /\ pc = "done" => mesh.cellIdMap = cellIdMap

\* a document whose first cell is of a type that gives no triangle and whose
\* second is a triangle over the second slice: the one entry is 1
C30_Witness ==
    /\ IsXml
    /\ pc = "done"
    /\ types.vals = <<3, 5>>
    /\ offsets.vals = <<3, 7>>
    /\ ci = 2
    /\ mesh.cellIdMap = <<1>>
    /\ mesh.index = <<0, 1, 2>>

====
